---- MODULE Spec2Model ----
(***************************************************************************)
(* Internship-application platform: the HTTP backend.                      *)
(*                                                                         *)
(* The repository holds three variants of the Go backend:                  *)
(*   variant 1  src/backend/main.go        lines    1..364  (no sessions)  *)
(*   variant 2  src/backend/main.go        lines  365..831  (sessions)     *)
(*   variant 3  src/frontend/src/App.jsx   lines  625..1353 (sessions,     *)
(*              error handling, CORS middleware)                           *)
(* Every handler of every variant is a definition of its own, suffixed     *)
(* _v1, _v2, _v3; the variable `variant` says which one is deployed.       *)
(*                                                                         *)
(* The relational store is modelled by the four tables the SQL statements  *)
(* name, the upload directory by the set of paths written, the gorilla     *)
(* cookie store by what it does: the session values travel inside the      *)
(* signed cookie and the server keeps no session state.                    *)
(***************************************************************************)
EXTENDS Integers, Sequences, FiniteSets, TLC

VARIABLES
    variant,               \* which backend variant is deployed (1, 2 or 3)
    users,                 \* table users: set of rows
    applications,          \* table applications: set of rows
    subjects,              \* table subjects: set of rows [id, name]
    application_subjects,  \* join table: set of <<application id, subject>>
    uploads,               \* files under uploads/: set of paths
    serial,                \* last values of the SERIAL id columns
    now,                   \* time.Now() / NOW(): the calendar day, day 0 a Monday
    nano,                  \* time.Now().UnixNano(): strictly increasing reading
    issued,                \* cookies the server has handed out by Set-Cookie
    loggedOut,             \* cookies presented to a logout that succeeded
    inflight,              \* apply requests between two of their statements
    deleting,              \* a batch delete between two of its statements
    faults,                \* the statements that fail: "cv", "motivation" (the
                           \* file of that part cannot be created), "insert"
    ui,                    \* the state of the backoffice page in the browser
    resp                   \* the last request completed and its response

db == <<users, applications, subjects, application_subjects, uploads, serial>>
vars == <<variant, users, applications, subjects, application_subjects, uploads,
          serial, now, nano, issued, loggedOut, inflight, deleting, faults, ui,
          resp>>

(* ------------------------------ bounds -------------------------------- *)
MaxUsers == 2
MaxCookies == 2
MaxApplications == 2
MaxWorkers == 2
MaxSubjects == 3
MaxClock == 1
MaxFiles == 4
MaxDays == 4
MaxPage == 3

(* ------------------------------ inputs -------------------------------- *)
Usernames == {"", "alice", "bob"}
Passwords == {"", "pw", "zz"}
\* Per route: the method it serves, one it does not, and the CORS preflight.
Methods(served) == {served, "OPTIONS"} \cup {IF served = "GET" THEN "POST" ELSE "GET"}

(* --------------------- password hashing (bcrypt) ----------------------- *)
\* An opaque one-way hash: the stored value is not the password, and only
\* the password it was made from verifies against it.
GenerateFromPassword(p) == <<"bcrypt", p>>
CompareHashAndPassword(h, p) == h = GenerateFromPassword(p)

(* --------------------- sessions (gorilla CookieStore) ------------------ *)
\* session.Values: `has` says whether the keys user_id/role/username are set.
EmptyValues == [has |-> FALSE, user_id |-> 0, role |-> "", username |-> ""]
NoCookie == [kind |-> "none", values |-> EmptyValues, ts |-> 0]
GarbageCookie == [kind |-> "garbage", values |-> EmptyValues, ts |-> 0]
SignedCookie(v, t) == [kind |-> "signed", values |-> v, ts |-> t]

\* store.Get(r, "auth"): no cookie gives a new empty session; a cookie that
\* does not decode or verify gives a new empty session and an error; a
\* cookie the store signed gives the values encoded in it.
storeGet(cookie) ==
    CASE cookie.kind = "none"    -> [values |-> EmptyValues, err |-> FALSE]
      [] cookie.kind = "garbage" -> [values |-> EmptyValues, err |-> TRUE]
      [] cookie.kind = "signed"  -> [values |-> cookie.values, err |-> FALSE]

\* The cookies a client can send: none, one that is not the store's, or any
\* cookie the server has handed out (a client may keep a copy of it).
Cookies == {NoCookie, GarbageCookie} \cup issued

NoSetCookie == [set |-> FALSE, maxAge |-> 0, values |-> EmptyValues]
\* session.Save(r, w): the values are encoded into the Set-Cookie header
\* with the session's MaxAge.
sessionSave(v, maxAge) == [set |-> TRUE, maxAge |-> maxAge, values |-> v]

(* ------------------------------ responses ------------------------------ *)
\* A path under uploads/: "uploads/<UnixNano>_<filename>"; NoPath is "".
NoPath == <<0, "">>
\* The locals of applyHandler that say what the request has written.
NoLocals == [cvPath |-> NoPath, motivationPath |-> NoPath, appID |-> 0]

\* A request without a body, and the response record before any request:
\* the request answered, the status code, the body and the cookie sent.
NoBody == [ok |-> TRUE]
NoResponse ==
    [route |-> "", method |-> "", cookie |-> NoCookie, body_in |-> NoBody,
     code |-> 0, body |-> "", setCookie |-> NoSetCookie, locals |-> NoLocals]

ReplyWith(r, code, body, setCookie, locals) ==
    resp' = [route |-> r.route, method |-> r.method, cookie |-> r.cookie,
             body_in |-> r.body, code |-> code, body |-> body,
             setCookie |-> setCookie, locals |-> locals]

Reply(r, code, body, setCookie) == ReplyWith(r, code, body, setCookie, NoLocals)

respondError(r, message, code) == Reply(r, code, message, NoSetCookie)
respondJSON(r, data, code) == Reply(r, code, data, NoSetCookie)

\* corsMiddleware (variant 3): an OPTIONS request is answered 200 before
\* the wrapped handler is reached.
corsMiddleware(r, next) ==
    IF r.method = "OPTIONS"
    THEN Reply(r, 200, "", NoSetCookie)
         /\ UNCHANGED <<db, now, nano, issued, loggedOut, inflight, deleting>>
    ELSE next

\* What a handler that only reads leaves alone.
ReadOnly == UNCHANGED <<db, now, nano, issued, loggedOut, inflight, deleting>>

(* ------------------------------ auth gate ------------------------------ *)
\* authRequired (variant 2): the error of store.Get is dropped.
authRequired_v2(role, r, next) ==
    LET session == storeGet(r.cookie) IN
    IF ~session.values.has
    THEN respondError(r, "Unauthorized", 401) /\ ReadOnly
    ELSE IF role # "" /\ session.values.role # role
    THEN respondError(r, "Forbidden", 403) /\ ReadOnly
    ELSE next

\* authRequired (variant 3): inside corsMiddleware; the error of store.Get
\* is answered 500 before the role is looked at.
authRequired_v3_inner(role, r, next) ==
    LET session == storeGet(r.cookie) IN
    IF session.err
    THEN respondError(r, "Session error", 500) /\ ReadOnly
    ELSE IF ~session.values.has
    THEN respondError(r, "Unauthorized", 401) /\ ReadOnly
    ELSE IF role # "" /\ session.values.role # role
    THEN respondError(r, "Forbidden", 403) /\ ReadOnly
    ELSE next

authRequired_v3(role, r, next) ==
    corsMiddleware(r, authRequired_v3_inner(role, r, next))

(* ------------------------------ signup --------------------------------- *)
\* The JSON body of a request: ok = FALSE is a body that is not JSON, which
\* leaves the Go struct zero-valued.
ZeroAuthBody == [ok |-> TRUE, username |-> "", email |-> "", password |-> "", role |-> ""]
\* The signups tried: two complete ones, those that differ from the first
\* in one field, and a body that is not JSON.
GoodSignup ==
    [ok |-> TRUE, username |-> "alice", email |-> "a@x.tn", password |-> "pw",
     role |-> "admin"]
OtherSignup ==
    [ok |-> TRUE, username |-> "bob", email |-> "b@x.tn", password |-> "zz",
     role |-> "user"]
BadJSON == [ZeroAuthBody EXCEPT !.ok = FALSE]
AuthBodies ==
    {GoodSignup, OtherSignup, BadJSON,
     [GoodSignup EXCEPT !.username = ""], [GoodSignup EXCEPT !.username = "bob"],
     [GoodSignup EXCEPT !.email = ""], [GoodSignup EXCEPT !.password = ""],
     [GoodSignup EXCEPT !.role = ""]}
\* The logins tried: every username with every password.
LoginBodies ==
    [ok : {TRUE}, username : Usernames, email : {""}, password : Passwords, role : {""}]
    \cup {BadJSON}
decodeAuthBody(b) == IF b.ok THEN b ELSE ZeroAuthBody

\* The unique constraints of table users (SQLSTATE 23505 on INSERT).
usersUniqueViolation(username, email) ==
    \E u \in users : u.username = username \/ u.email = email

\* An INSERT that stores role "user" whatever role is asked for.
insertUser_roleForced(body, hash) ==
    /\ serial' = [serial EXCEPT !.users = @ + 1]
    /\ users' = users \cup {[id |-> serial.users + 1, username |-> body.username,
                             email |-> body.email, password_hash |-> hash,
                             role |-> "user"]}
    /\ UNCHANGED <<applications, subjects, application_subjects, uploads>>

\* INSERT INTO users (username, email, password_hash, role) VALUES (...)
insertUser(body, hash) ==
    /\ serial' = [serial EXCEPT !.users = @ + 1]
    /\ users' = users \cup {[id |-> serial.users + 1, username |-> body.username,
                             email |-> body.email, password_hash |-> hash,
                             role |-> body.role]}
    /\ UNCHANGED <<applications, subjects, application_subjects, uploads>>

signup_v2(r) ==
    IF r.method # "POST"
    THEN Reply(r, 200, "", NoSetCookie) /\ ReadOnly
    ELSE LET body == decodeAuthBody(r.body)
             hash == GenerateFromPassword(body.password) IN
         IF usersUniqueViolation(body.username, body.email)
         THEN respondError(r, "User exists", 409) /\ ReadOnly
         ELSE /\ Cardinality(users) < MaxUsers
              /\ insertUser(body, hash)
              /\ Reply(r, 201, "", NoSetCookie)
              /\ UNCHANGED <<now, nano, issued, loggedOut, inflight>>

\* A signup that stores the user whatever the INSERT reports.
signup_v3_unchecked(r) ==
    IF r.method # "POST"
    THEN respondError(r, "Method not allowed", 405) /\ ReadOnly
    ELSE IF ~r.body.ok
    THEN respondError(r, "Invalid JSON", 400) /\ ReadOnly
    ELSE IF r.body.username = "" \/ r.body.email = "" \/ r.body.password = ""
    THEN respondError(r, "Missing required fields", 400) /\ ReadOnly
    ELSE /\ Cardinality(users) < MaxUsers
         /\ insertUser(r.body, GenerateFromPassword(r.body.password))
         /\ Reply(r, 201, "", NoSetCookie)
         /\ UNCHANGED <<now, nano, issued, loggedOut, inflight>>

signup_v3_inner(r) ==
    IF r.method # "POST"
    THEN respondError(r, "Method not allowed", 405) /\ ReadOnly
    ELSE IF ~r.body.ok
    THEN respondError(r, "Invalid JSON", 400) /\ ReadOnly
    ELSE LET body == r.body
             hash == GenerateFromPassword(body.password) IN
         IF body.username = "" \/ body.email = "" \/ body.password = ""
         THEN respondError(r, "Missing required fields", 400) /\ ReadOnly
         ELSE IF usersUniqueViolation(body.username, body.email)
         THEN respondError(r, "User already exists", 409) /\ ReadOnly
         ELSE /\ Cardinality(users) < MaxUsers
              /\ insertUser(body, hash)
              /\ Reply(r, 201, "", NoSetCookie)
              /\ UNCHANGED <<now, nano, issued, loggedOut, inflight>>

signup_v3(r) == corsMiddleware(r, signup_v3_inner(r))

(* ------------------------------ login ---------------------------------- *)
\* SELECT id, password_hash, role, username FROM users WHERE username=$1
userByName(username) == {u \in users : u.username = username}

\* A login that binds the role "user" whatever the stored role is.
loginValues_roleDropped(u) ==
    [has |-> TRUE, user_id |-> u.id, role |-> "user", username |-> u.username]

\* The session values login binds, and the cookie session.Save hands out.
loginValues(u) ==
    [has |-> TRUE, user_id |-> u.id, role |-> u.role, username |-> u.username]

issueSession(r, u, code, body) ==
    /\ nano < MaxCookies
    /\ nano' = nano + 1
    /\ issued' = issued \cup {SignedCookie(loginValues(u), nano + 1)}
    /\ Reply(r, code, body, sessionSave(loginValues(u), 86400))
    /\ UNCHANGED <<db, now, loggedOut, inflight>>

login_v2(r) ==
    IF r.method # "POST"
    THEN Reply(r, 200, "", NoSetCookie) /\ ReadOnly
    ELSE LET body == decodeAuthBody(r.body)
             found == userByName(body.username) IN
         IF found = {}
            \/ \A u \in found : ~CompareHashAndPassword(u.password_hash, body.password)
         THEN respondError(r, "Invalid credentials", 401) /\ ReadOnly
         ELSE \E u \in found :
                 /\ CompareHashAndPassword(u.password_hash, body.password)
                 /\ issueSession(r, u, 200, "")

login_v3_inner(r) ==
    IF r.method # "POST"
    THEN respondError(r, "Method not allowed", 405) /\ ReadOnly
    ELSE IF ~r.body.ok
    THEN respondError(r, "Invalid JSON", 400) /\ ReadOnly
    ELSE LET body == r.body
             found == userByName(body.username) IN
         IF body.username = "" \/ body.password = ""
         THEN respondError(r, "Missing credentials", 400) /\ ReadOnly
         ELSE IF found = {}
         THEN respondError(r, "Invalid credentials", 401) /\ ReadOnly
         ELSE \E u \in found :
                 IF ~CompareHashAndPassword(u.password_hash, body.password)
                 THEN respondError(r, "Invalid credentials", 401) /\ ReadOnly
                 ELSE issueSession(r, u, 200, [success |-> TRUE])

login_v3(r) == corsMiddleware(r, login_v3_inner(r))

(* ------------------------------ logout --------------------------------- *)
\* session.Options.MaxAge = -1; session.Save(r, w): the response tells the
\* client to drop the cookie. The store keeps nothing, so nothing of the
\* server changes.
clearSession(r, code, body) ==
    /\ Reply(r, code, body, sessionSave(storeGet(r.cookie).values, -1))
    /\ loggedOut' = IF r.cookie.kind = "signed"
                    THEN loggedOut \cup {r.cookie} ELSE loggedOut
    /\ UNCHANGED <<db, now, nano, issued, inflight>>

logout_v2(r) == clearSession(r, 200, "")

logout_v3_inner(r) ==
    IF r.method # "POST"
    THEN respondError(r, "Method not allowed", 405) /\ ReadOnly
    ELSE clearSession(r, 200, [success |-> TRUE])

logout_v3(r) == corsMiddleware(r, logout_v3_inner(r))

(* ------------------------------ whoami --------------------------------- *)
LoggedOutBody == [loggedIn |-> FALSE, role |-> "", username |-> ""]

me_v2(r) ==
    LET session == storeGet(r.cookie) IN
    /\ IF ~session.values.has
       THEN respondJSON(r, LoggedOutBody, 200)
       ELSE respondJSON(r, [loggedIn |-> TRUE, role |-> session.values.role,
                            username |-> session.values.username], 200)
    /\ ReadOnly

me_v3_inner(r) ==
    LET session == storeGet(r.cookie) IN
    /\ IF session.err \/ ~session.values.has
       THEN respondJSON(r, LoggedOutBody, 200)
       ELSE respondJSON(r, [loggedIn |-> TRUE, role |-> session.values.role,
                            username |-> session.values.username], 200)
    /\ ReadOnly

me_v3(r) == corsMiddleware(r, me_v3_inner(r))

(* ------------------------------ calendar ------------------------------- *)
\* The clock counts half days from a Monday 00:00: readings 0 and 1 fall
\* on that Monday, 12 and 13 on the Sunday after it, 14 on the next Monday.
TicksPerDay == 2
Day(t) == t \div TicksPerDay
Midnight(d) == d * TicksPerDay
\* Go's time.Weekday has Sunday = 0.
Weekday(t) == (Day(t) + 1) % 7
\* DATE_TRUNC('week', NOW()): Monday 00:00 of the current week.
dateTruncWeek(t) == Midnight(Day(t) - (Day(t) % 7))
\* getWeeklyApplications (variant 1) computes the boundary in Go, without
\* the branch for Sunday: int(weekday) - 1 is -1 on that day.
startOfWeek_v1_noSunday(t) ==
    LET weekday == Weekday(t)
        daysSinceMonday == weekday - 1
    IN Midnight(Day(t) - daysSinceMonday)
\* getWeeklyApplications (variant 1): time.Date(year, month,
\* day - daysSinceMonday, 0, 0, 0, 0, location).
startOfWeek_v1(t) ==
    LET weekday == Weekday(t)
        daysSinceMonday == IF weekday = 0 THEN 6 ELSE weekday - 1
    IN Midnight(Day(t) - daysSinceMonday)

(* ------------------------------ listing -------------------------------- *)
\* SELECT ... FROM applications ORDER BY created_at DESC: any order of the
\* rows that is descending in created_at (SQL leaves ties open).
OrderedByCreatedAtDesc(rows) ==
    {f \in [1..Cardinality(rows) -> rows] :
        /\ \A i, j \in 1..Cardinality(rows) : i # j => f[i] # f[j]
        /\ \A i, j \in 1..Cardinality(rows) : i < j => f[i].created_at >= f[j].created_at}

\* SELECT s.name FROM subjects s JOIN application_subjects a
\*   ON a.subject_id = s.id WHERE a.application_id = $1
subjectNamesOf(id) ==
    {s.name : s \in {x \in subjects : <<id, x.id>> \in application_subjects}}

applicationResponse_v1(a) ==
    [id |-> a.id, email |-> a.email, phone |-> a.phone, start_date |-> a.start_date,
     created_at |-> a.created_at, cv_file_path |-> a.cv_file_path,
     motivation_file_path |-> a.motivation_file_path, subjects |-> {}]

applicationResponse(a) ==
    [id |-> a.id, email |-> a.email, phone |-> a.phone, start_date |-> a.start_date,
     created_at |-> a.created_at, cv_file_path |-> a.cv_file_path,
     motivation_file_path |-> a.motivation_file_path, subjects |-> subjectNamesOf(a.id)]

listApplications_v1(r) ==
    /\ \E rows \in OrderedByCreatedAtDesc(applications) :
          Reply(r, 200, [i \in DOMAIN rows |-> applicationResponse_v1(rows[i])], NoSetCookie)
    /\ ReadOnly

listApplications_v2(r) ==
    /\ \E rows \in OrderedByCreatedAtDesc(applications) :
          Reply(r, 200, [i \in DOMAIN rows |-> applicationResponse(rows[i])], NoSetCookie)
    /\ ReadOnly

listApplications_v3(r) ==
    /\ \E rows \in OrderedByCreatedAtDesc(applications) :
          respondJSON(r, [i \in DOMAIN rows |-> applicationResponse(rows[i])], 200)
    /\ ReadOnly

(* ------------------------------ weekly count --------------------------- *)
getWeeklyApplications_v1(r) ==
    /\ respondJSON(r, [count |-> Cardinality({a \in applications :
                                     a.created_at >= startOfWeek_v1(now)})], 200)
    /\ ReadOnly

weeklyApplications_v2(r) ==
    /\ respondJSON(r, [count |-> Cardinality({a \in applications :
                                     a.created_at >= dateTruncWeek(now)})], 200)
    /\ ReadOnly

weeklyApplications_v3(r) ==
    /\ respondJSON(r, [count |-> Cardinality({a \in applications :
                                     a.created_at >= dateTruncWeek(now)})], 200)
    /\ ReadOnly

(* ------------------------------ subjects delete ------------------------ *)
Range(f) == {f[i] : i \in DOMAIN f}

\* Variant 2: not behind authRequired; deletes the join rows of the
\* subjects, then the subjects.
deleteSubjects_v2(r) ==
    IF r.method = "OPTIONS"
    THEN Reply(r, 200, "", NoSetCookie) /\ ReadOnly
    ELSE IF r.method # "DELETE"
    THEN respondError(r, "Method not allowed", 405) /\ ReadOnly
    ELSE LET ids == IF r.body.ok THEN r.body.ids ELSE <<>> IN
         IF Len(ids) = 0
         THEN respondError(r, "No subjects selected", 400) /\ ReadOnly
         ELSE /\ application_subjects' =
                    {j \in application_subjects : j[2] \notin Range(ids)}
              /\ subjects' = {s \in subjects : s.id \notin Range(ids)}
              /\ Reply(r, 200, [success |-> TRUE], NoSetCookie)
              /\ UNCHANGED <<users, applications, uploads, serial, now, nano,
                             issued, loggedOut, inflight>>

\* SELECT DISTINCT subject_id FROM application_subjects WHERE subject_id = ANY($1)
inUseOf(ids) == {id \in Range(ids) : \E j \in application_subjects : j[2] = id}

\* Variant 3: the subjects referenced by a join row are kept and reported,
\* the others deleted.
deleteSubjects_v3(r) ==
    IF r.method # "DELETE"
    THEN respondError(r, "Method not allowed", 405) /\ ReadOnly
    ELSE IF ~r.body.ok
    THEN respondError(r, "Invalid JSON", 400) /\ ReadOnly
    ELSE IF Len(r.body.ids) = 0
    THEN respondError(r, "No subjects selected", 400) /\ ReadOnly
    ELSE LET inUse == inUseOf(r.body.ids)
             notInUse(id) == id \notin inUse
             deletable == SelectSeq(r.body.ids, notInUse) IN
         /\ subjects' = {s \in subjects : s.id \notin Range(deletable)}
         /\ respondJSON(r, [deleted |-> deletable, in_use |-> inUse], 200)
         /\ UNCHANGED <<users, applications, application_subjects, uploads, serial,
                        now, nano, issued, loggedOut, inflight>>

(* ------------------- subjects delete: statement by statement ----------- *)
\* No batch delete is under way.
NotDeleting ==
    [pc |-> "idle",
     r |-> [route |-> "", method |-> "", cookie |-> NoCookie,
            body |-> [ok |-> FALSE, ids |-> <<>>]],
     inUse |-> {}]

\* Variant 2, up to and including
\* DELETE FROM application_subjects WHERE subject_id = ANY($1)
deleteSubjects_v2_joins(r) ==
    IF r.method = "OPTIONS"
    THEN Reply(r, 200, "", NoSetCookie) /\ ReadOnly
    ELSE IF r.method # "DELETE"
    THEN respondError(r, "Method not allowed", 405) /\ ReadOnly
    ELSE LET ids == IF r.body.ok THEN r.body.ids ELSE <<>> IN
         IF Len(ids) = 0
         THEN respondError(r, "No subjects selected", 400) /\ ReadOnly
         ELSE /\ application_subjects' =
                    {j \in application_subjects : j[2] \notin Range(ids)}
              /\ deleting' = [pc |-> "subjects", r |-> r, inUse |-> {}]
              /\ UNCHANGED <<users, applications, subjects, uploads, serial, now,
                             nano, issued, loggedOut, inflight, resp>>

\* Variant 2: DELETE FROM subjects WHERE id = ANY($1), and the answer.
deleteSubjects_v2_subjects ==
    /\ deleting.pc = "subjects"
    /\ subjects' = {s \in subjects : s.id \notin Range(deleting.r.body.ids)}
    /\ Reply(deleting.r, 200, [success |-> TRUE], NoSetCookie)
    /\ deleting' = NotDeleting
    /\ UNCHANGED <<users, applications, application_subjects, uploads, serial,
                   now, nano, issued, loggedOut, inflight>>

\* Variant 3, up to and including the query for the subjects in use, which
\* runs before the transaction is begun.
deleteSubjects_v3_query(r) ==
    IF r.method # "DELETE"
    THEN respondError(r, "Method not allowed", 405) /\ ReadOnly
    ELSE IF ~r.body.ok
    THEN respondError(r, "Invalid JSON", 400) /\ ReadOnly
    ELSE IF Len(r.body.ids) = 0
    THEN respondError(r, "No subjects selected", 400) /\ ReadOnly
    ELSE /\ deleting' = [pc |-> "tx", r |-> r, inUse |-> inUseOf(r.body.ids)]
         /\ UNCHANGED <<db, now, nano, issued, loggedOut, inflight, resp>>

\* Variant 3's transaction, were every requested id deleted and reported,
\* in use or not.
deleteSubjects_v3_tx_all ==
    /\ deleting.pc = "tx"
    /\ subjects' = {s \in subjects : s.id \notin Range(deleting.r.body.ids)}
    /\ respondJSON(deleting.r, [deleted |-> deleting.r.body.ids,
                                in_use |-> deleting.inUse], 200)
    /\ deleting' = NotDeleting
    /\ UNCHANGED <<users, applications, application_subjects, uploads, serial,
                   now, nano, issued, loggedOut, inflight>>

\* Variant 3: the transaction, DELETE FROM subjects WHERE id = ANY($1) for
\* the ids the query did not return, and the answer.
deleteSubjects_v3_tx ==
    LET notInUse(id) == id \notin deleting.inUse
        deletable == SelectSeq(deleting.r.body.ids, notInUse) IN
    /\ deleting.pc = "tx"
    /\ subjects' = {s \in subjects : s.id \notin Range(deletable)}
    /\ respondJSON(deleting.r, [deleted |-> deletable, in_use |-> deleting.inUse], 200)
    /\ deleting' = NotDeleting
    /\ UNCHANGED <<users, applications, application_subjects, uploads, serial,
                   now, nano, issued, loggedOut, inflight>>

(* ------------------------------ subjects ------------------------------- *)
\* The subject names in play, in the order ORDER BY name puts them.
SubjectNames == <<"AI", "ML", "Web">>
nameRank(n) == CHOOSE i \in DOMAIN SubjectNames : SubjectNames[i] = n

\* SELECT id, name FROM subjects ORDER BY name
OrderedByName(rows) ==
    {f \in [1..Cardinality(rows) -> rows] :
        /\ \A i, j \in 1..Cardinality(rows) : i # j => f[i] # f[j]
        /\ \A i, j \in 1..Cardinality(rows) :
              i < j => nameRank(f[i].name) <= nameRank(f[j].name)}

\* The unique constraint on subjects.name: the statement would leave two
\* rows with the name.
subjectsUniqueViolation(name, id) ==
    \E s \in subjects : s.name = name /\ s.id # id

ZeroSubjectBody == [ok |-> TRUE, id |-> 0, name |-> ""]
\* json.NewDecoder(r.Body).Decode(&body) with the error dropped: a body
\* that does not decode leaves the zero value.
decodeSubjectBody(raw) == IF raw.ok THEN raw ELSE ZeroSubjectBody

\* INSERT INTO subjects (name) VALUES ($1)
insertSubject(name) ==
    /\ serial' = [serial EXCEPT !.subjects = @ + 1]
    /\ subjects' = subjects \cup {[id |-> serial.subjects + 1, name |-> name]}
    /\ UNCHANGED <<users, applications, application_subjects, uploads>>

\* UPDATE subjects SET name=$1 WHERE id=$2
updateSubject(name, id) ==
    /\ subjects' = {IF s.id = id THEN [s EXCEPT !.name = name] ELSE s : s \in subjects}
    /\ UNCHANGED <<users, applications, application_subjects, uploads, serial>>

subjectsList(r, code) ==
    /\ \E rows \in OrderedByName(subjects) : Reply(r, code, rows, NoSetCookie)
    /\ ReadOnly

\* Variant 2: every error of db.Exec is answered 409; success is answered
\* with the default status.
subjectsHandler_v2(r) ==
    LET body == decodeSubjectBody(r.body) IN
    CASE r.method = "OPTIONS" -> Reply(r, 200, "", NoSetCookie) /\ ReadOnly
      [] r.method = "GET" -> subjectsList(r, 200)
      [] r.method = "POST" ->
            IF body.name = ""
            THEN respondError(r, "Subject name required", 400) /\ ReadOnly
            ELSE IF subjectsUniqueViolation(body.name, 0)
            THEN respondError(r, "Subject already exists", 409) /\ ReadOnly
            ELSE /\ serial.subjects < MaxSubjects
                 /\ insertSubject(body.name)
                 /\ Reply(r, 200, [success |-> TRUE], NoSetCookie)
                 /\ UNCHANGED <<now, nano, issued, loggedOut, inflight>>
      [] r.method = "PUT" ->
            IF body.id = 0 \/ body.name = ""
            THEN respondError(r, "Invalid payload", 400) /\ ReadOnly
            ELSE IF (\E s \in subjects : s.id = body.id)
                      /\ subjectsUniqueViolation(body.name, body.id)
            THEN respondError(r, "Subject name already exists", 409) /\ ReadOnly
            ELSE /\ updateSubject(body.name, body.id)
                 /\ Reply(r, 200, [success |-> TRUE], NoSetCookie)
                 /\ UNCHANGED <<now, nano, issued, loggedOut, inflight>>
      [] OTHER -> respondError(r, "Method not allowed", 405) /\ ReadOnly

\* The handler of variant 3 with the statements carried out whatever the
\* unique constraint says.
subjectsHandler_v3_unchecked(r) ==
    CASE r.method = "GET" -> subjectsList(r, 200)
      [] r.method = "POST" ->
            IF ~r.body.ok
            THEN respondError(r, "Invalid JSON", 400) /\ ReadOnly
            ELSE IF r.body.name = ""
            THEN respondError(r, "Subject name required", 400) /\ ReadOnly
            ELSE /\ serial.subjects < MaxSubjects
                 /\ insertSubject(r.body.name)
                 /\ respondJSON(r, [success |-> TRUE], 201)
                 /\ UNCHANGED <<now, nano, issued, loggedOut, inflight>>
      [] r.method = "PUT" ->
            IF ~r.body.ok
            THEN respondError(r, "Invalid JSON", 400) /\ ReadOnly
            ELSE IF r.body.id = 0 \/ r.body.name = ""
            THEN respondError(r, "Invalid payload", 400) /\ ReadOnly
            ELSE /\ updateSubject(r.body.name, r.body.id)
                 /\ respondJSON(r, [success |-> TRUE], 200)
                 /\ UNCHANGED <<now, nano, issued, loggedOut, inflight>>
      [] OTHER -> respondError(r, "Method not allowed", 405) /\ ReadOnly

\* Variant 3: SQLSTATE 23505 is answered 409; a create is answered 201.
subjectsHandler_v3_inner(r) ==
    CASE r.method = "GET" -> subjectsList(r, 200)
      [] r.method = "POST" ->
            IF ~r.body.ok
            THEN respondError(r, "Invalid JSON", 400) /\ ReadOnly
            ELSE IF r.body.name = ""
            THEN respondError(r, "Subject name required", 400) /\ ReadOnly
            ELSE IF subjectsUniqueViolation(r.body.name, 0)
            THEN respondError(r, "Subject already exists", 409) /\ ReadOnly
            ELSE /\ serial.subjects < MaxSubjects
                 /\ insertSubject(r.body.name)
                 /\ respondJSON(r, [success |-> TRUE], 201)
                 /\ UNCHANGED <<now, nano, issued, loggedOut, inflight>>
      [] r.method = "PUT" ->
            IF ~r.body.ok
            THEN respondError(r, "Invalid JSON", 400) /\ ReadOnly
            ELSE IF r.body.id = 0 \/ r.body.name = ""
            THEN respondError(r, "Invalid payload", 400) /\ ReadOnly
            ELSE IF (\E s \in subjects : s.id = r.body.id)
                      /\ subjectsUniqueViolation(r.body.name, r.body.id)
            THEN respondError(r, "Subject name already exists", 409) /\ ReadOnly
            ELSE /\ updateSubject(r.body.name, r.body.id)
                 /\ respondJSON(r, [success |-> TRUE], 200)
                 /\ UNCHANGED <<now, nano, issued, loggedOut, inflight>>
      [] OTHER -> respondError(r, "Method not allowed", 405) /\ ReadOnly

subjectsHandler_v3(r) == corsMiddleware(r, subjectsHandler_v3_inner(r))

(* ------------------------------ apply: the form ------------------------ *)
NoFile == [present |-> FALSE, filename |-> "", content_type |-> ""]
PdfFile(name) == [present |-> TRUE, filename |-> name, content_type |-> "application/pdf"]
PngFile(name) == [present |-> TRUE, filename |-> name, content_type |-> "image/png"]

\* Phone numbers, character by character.
Phone8 == <<"2", "0", "-", "1", "2", "3", "-", "4", "5", "6">>
Phone7 == <<"2", "0", "1", "2", "3", "4", "5">>
Phone9 == <<"+", "2", "0", "1", "2", "3", "4", "5", "6", "7">>
Digits == {"0", "1", "2", "3", "4", "5", "6", "7", "8", "9"}

\* validateForm of the form page: phone.replace(/\D/g, '') and the test
\* phoneDigits.length !== 8. No handler of the server calls it.
phoneDigits(phone) == SelectSeq(phone, LAMBDA c : c \in Digits)
validPhone(phone) == Len(phoneDigits(phone)) = 8

\* The emails tried, character by character.
Chars(email) ==
    CASE email = "a@b.tn" -> <<"a", "@", "b", ".", "t", "n">>
      [] email = "c@d.tn" -> <<"c", "@", "d", ".", "t", "n">>
      [] email = "ab.tn" -> <<"a", "b", ".", "t", "n">>
      [] email = "a@btn" -> <<"a", "@", "b", "t", "n">>
      [] email = "a.b@tn" -> <<"a", ".", "b", "@", "t", "n">>
      [] OTHER -> <<>>
\* String.prototype.includes, indexOf and lastIndexOf, with positions
\* counted from 1 and 0 for "not found" (JavaScript: from 0, and -1).
includes(s, c) == \E i \in DOMAIN s : s[i] = c
indexOf(s, c) ==
    IF includes(s, c)
    THEN CHOOSE i \in DOMAIN s : s[i] = c /\ \A j \in DOMAIN s : s[j] = c => i <= j
    ELSE 0
lastIndexOf(s, c) ==
    IF includes(s, c)
    THEN CHOOSE i \in DOMAIN s : s[i] = c /\ \A j \in DOMAIN s : s[j] = c => j <= i
    ELSE 0
\* validateForm of the form page: the email test. No handler of the server
\* calls it.
validEmail(email) ==
    LET s == Chars(email) IN
    ~(~includes(s, "@") \/ ~includes(s, ".") \/ indexOf(s, "@") > lastIndexOf(s, "."))

\* A body ParseMultipartForm cannot parse leaves every field empty.
EmptyForm ==
    [ok |-> FALSE, email |-> "", phone |-> <<>>, subjects |-> <<>>, cv |-> NoFile,
     motivation |-> NoFile, early_start_date |-> ""]

\* The submission of the spec's example: valid on every count.
GoodForm ==
    [ok |-> TRUE, email |-> "a@b.tn", phone |-> Phone8, subjects |-> <<"AI">>,
     cv |-> PdfFile("cv.pdf"), motivation |-> NoFile, early_start_date |-> ""]

\* The submissions tried: the valid one and those that differ from it in
\* one field.
ApplyForms ==
    {GoodForm, EmptyForm}
    \cup {[GoodForm EXCEPT !.email = e] : e \in {"", "c@d.tn", "ab.tn", "a@btn", "a.b@tn"}}
    \cup {[GoodForm EXCEPT !.phone = p] : p \in {Phone7, Phone9, <<>>}}
    \cup {[GoodForm EXCEPT !.subjects = s] : s \in {<<>>, <<"AI", "Web">>, <<"Nope">>}}
    \cup {[GoodForm EXCEPT !.cv = f] : f \in {NoFile, PngFile("cv.png")}}
    \cup {[GoodForm EXCEPT !.motivation = f] : f \in {PdfFile("m.pdf"), PngFile("m.png")}}

Workers == 1..MaxWorkers
Idle == [pc |-> "idle", r |-> [route |-> "", method |-> "", cookie |-> NoCookie,
                              body |-> EmptyForm], locals |-> NoLocals]

\* The request of worker w moves on to its next statement.
Goto(w, pc, r, locals) ==
    inflight' = [inflight EXCEPT ![w] = [pc |-> pc, r |-> r, locals |-> locals]]
Finish(w) == inflight' = [inflight EXCEPT ![w] = Idle]

\* No more requests are admitted than rows the model has room for, nor
\* once MaxFiles files were written.
Room == /\ Cardinality(applications)
           + Cardinality({w \in Workers : inflight[w].pc # "idle"}) < MaxApplications
        /\ nano < MaxFiles

\* SELECT EXISTS (SELECT 1 FROM applications WHERE email=$1)
emailExistsQuery(email) == \E a \in applications : a.email = email

\* time.Parse("2006-01-02", v)
NullTime == [Valid |-> FALSE, Time |-> ""]
ZeroTime == "0001-01-01"
parseDate(v) ==
    IF v \in {"2026-02-01"} THEN [err |-> FALSE, Time |-> v]
    ELSE [err |-> TRUE, Time |-> ZeroTime]

\* INSERT INTO applications (...) VALUES (...) RETURNING id
insertApplication(f, startDate, locals) ==
    /\ serial' = [serial EXCEPT !.applications = @ + 1]
    /\ applications' = applications \cup
          {[id |-> serial.applications + 1, email |-> f.email, phone |-> f.phone,
            start_date |-> startDate, created_at |-> now,
            cv_file_path |-> locals.cvPath,
            motivation_file_path |-> locals.motivationPath]}

(* ------------------------------ apply: the client --------------------- *)
\* validateForm of the apply page: the alert shown, or "" when the form
\* may be submitted. exists is the answer of GET /email-exists.
validateForm(f, exists) ==
    IF Len(phoneDigits(f.phone)) # 8
    THEN "Phone number must be exactly 8 digits"
    ELSE IF ~validEmail(f.email)
    THEN "Please enter a valid email address (example@domain.com)"
    ELSE IF exists
    THEN "Email already used"
    ELSE IF Len(f.subjects) = 0
    THEN "Please select at least one subject"
    ELSE IF f.cv.present /\ f.cv.content_type # "application/pdf"
    THEN "CV must be a PDF file"
    ELSE IF f.motivation.present /\ f.motivation.content_type # "application/pdf"
    THEN "Motivation letter must be a PDF file"
    ELSE ""

(* ------------------------------ apply: savePDF ------------------------- *)
\* savePDF(field) at clock reading t: the path returned, whether an error
\* is returned, and whether a file was written under uploads/.
NotSaved(err) == [path |-> NoPath, err |-> err, wrote |-> FALSE]
Saved(part, t) == [path |-> <<t, part.filename>>, err |-> FALSE, wrote |-> TRUE]

\* Variant 1: a missing part is no error; a part that is not a PDF is one.
savePDF_v1(part, t, fails) ==
    IF ~part.present THEN NotSaved(FALSE)
    ELSE IF part.content_type # "application/pdf" THEN NotSaved(TRUE)
    ELSE IF fails THEN NotSaved(TRUE)
    ELSE Saved(part, t)

\* Variants 2 and 3: a missing part is an error; the content type is not
\* looked at. Variant 2 drops the error of os.Create and returns the path
\* of a file it did not write; variant 3 returns the error.
savePDF_v2(part, t, fails) ==
    IF ~part.present THEN NotSaved(TRUE)
    ELSE IF fails THEN [path |-> <<t, part.filename>>, err |-> FALSE, wrote |-> FALSE]
    ELSE Saved(part, t)
savePDF_v3(part, t, fails) ==
    IF ~part.present THEN NotSaved(TRUE)
    ELSE IF fails THEN NotSaved(TRUE)
    ELSE Saved(part, t)

\* The two calls savePDF("cv"), savePDF("motivation") of a handler that
\* goes on after the first; each file written reads the clock once.
WriteFiles(cv, motivation) ==
    /\ uploads' = uploads \cup {x.path : x \in {y \in {cv, motivation} : y.wrote}}
    /\ nano' = nano + Cardinality({x \in {cv, motivation} : x.wrote})
NextReading(cv) == IF cv.wrote THEN nano + 2 ELSE nano + 1

(* ------------------------------ apply: variant 1 ----------------------- *)
applyHandler_v1_start(w, r) ==
    LET f == r.body IN
    IF r.method = "OPTIONS"
    THEN Reply(r, 200, "", NoSetCookie) /\ ReadOnly
    ELSE IF r.method # "POST"
    THEN Reply(r, 405, "Method not allowed", NoSetCookie) /\ ReadOnly
    ELSE IF ~f.ok
    THEN Reply(r, 400, "parse error", NoSetCookie) /\ ReadOnly
    ELSE IF Len(f.subjects) = 0
    THEN Reply(r, 400, "At least one subject is required", NoSetCookie) /\ ReadOnly
    ELSE /\ Room
         /\ Goto(w, "files", r, NoLocals)
         /\ UNCHANGED <<db, now, nano, issued, loggedOut, resp>>

applyHandler_v1_files(w) ==
    LET r == inflight[w].r
        cv == savePDF_v1(r.body.cv, nano + 1, "cv" \in faults)
        motivation == savePDF_v1(r.body.motivation, NextReading(cv),
                                 "motivation" \in faults) IN
    /\ inflight[w].pc = "files"
    /\ IF cv.err
       THEN /\ Reply(r, 400, "cv must be a PDF file", NoSetCookie)
            /\ Finish(w)
            /\ UNCHANGED <<db, now, nano, issued, loggedOut>>
       ELSE /\ WriteFiles(cv, motivation)
            /\ Goto(w, "insert", r, [cvPath |-> cv.path,
                                     motivationPath |-> motivation.path, appID |-> 0])
            /\ UNCHANGED <<users, applications, subjects, application_subjects,
                           serial, now, issued, loggedOut, resp>>

applyHandler_v1_insert(w) ==
    LET r == inflight[w].r
        parsed == parseDate(r.body.early_start_date)
        parsedStartDate == IF r.body.early_start_date # "" /\ ~parsed.err
                           THEN [Valid |-> TRUE, Time |-> parsed.Time] ELSE NullTime IN
    /\ inflight[w].pc = "insert"
    /\ IF "insert" \in faults
       THEN /\ Reply(r, 500, "Failed to save application", NoSetCookie)
            /\ Finish(w)
            /\ UNCHANGED <<db, now, nano, issued, loggedOut>>
       ELSE /\ insertApplication(r.body, parsedStartDate, inflight[w].locals)
            /\ Goto(w, "subjects", r,
                    [inflight[w].locals EXCEPT !.appID = serial.applications + 1])
            /\ UNCHANGED <<users, subjects, application_subjects, uploads, now,
                           nano, issued, loggedOut, resp>>

\* INSERT INTO application_subjects (application_id, subject) VALUES ($1, $2)
applyHandler_v1_subjects(w) ==
    LET r == inflight[w].r
        locals == inflight[w].locals IN
    /\ inflight[w].pc = "subjects"
    /\ application_subjects' = application_subjects
          \cup {<<locals.appID, r.body.subjects[i]>> : i \in DOMAIN r.body.subjects}
    /\ ReplyWith(r, 201, [success |-> TRUE, id |-> locals.appID], NoSetCookie, locals)
    /\ Finish(w)
    /\ UNCHANGED <<users, applications, subjects, uploads, serial, now, nano,
                   issued, loggedOut>>

(* ------------------------------ apply: variant 2 ----------------------- *)
applyHandler_v2_start(w, r) ==
    LET f == r.body IN
    IF r.method # "POST"
    THEN respondError(r, "Method not allowed", 405) /\ ReadOnly
    ELSE IF emailExistsQuery(f.email)
    THEN respondError(r, "Email already used", 409) /\ ReadOnly
    ELSE /\ Room
         /\ Goto(w, "files", r, NoLocals)
         /\ UNCHANGED <<db, now, nano, issued, loggedOut, resp>>

applyHandler_v2_files(w) ==
    LET r == inflight[w].r
        cv == savePDF_v2(r.body.cv, nano + 1, "cv" \in faults)
        motivation == savePDF_v2(r.body.motivation, NextReading(cv),
                                 "motivation" \in faults) IN
    /\ inflight[w].pc = "files"
    /\ WriteFiles(cv, motivation)
    /\ Goto(w, "insert", r, [cvPath |-> cv.path,
                             motivationPath |-> motivation.path, appID |-> 0])
    /\ UNCHANGED <<users, applications, subjects, application_subjects,
                   serial, now, issued, loggedOut, resp>>

\* The error of time.Parse is dropped: a date that does not parse is stored
\* as the zero time, not as NULL.
applyHandler_v2_insert(w) ==
    LET r == inflight[w].r
        t == parseDate(r.body.early_start_date)
        startDate == IF r.body.early_start_date # ""
                     THEN [Valid |-> TRUE, Time |-> t.Time] ELSE NullTime IN
    /\ inflight[w].pc = "insert"
    /\ IF "insert" \in faults
       THEN /\ Reply(r, 500, "insert failed", NoSetCookie)
            /\ Finish(w)
            /\ UNCHANGED <<db, now, nano, issued, loggedOut>>
       ELSE /\ insertApplication(r.body, startDate, inflight[w].locals)
            /\ Goto(w, "subjects", r,
                    [inflight[w].locals EXCEPT !.appID = serial.applications + 1])
            /\ UNCHANGED <<users, subjects, application_subjects, uploads, now,
                           nano, issued, loggedOut, resp>>

\* SELECT id FROM subjects WHERE name=$1, then
\* INSERT INTO application_subjects VALUES ($1,$2) for the names found.
joinRows(appID, names) ==
    {<<appID, s.id>> : s \in {x \in subjects : x.name \in Range(names)}}

applyHandler_v2_subjects(w) ==
    LET r == inflight[w].r
        locals == inflight[w].locals IN
    /\ inflight[w].pc = "subjects"
    /\ application_subjects' = application_subjects \cup joinRows(locals.appID, r.body.subjects)
    /\ ReplyWith(r, 200, [success |-> TRUE, id |-> locals.appID], NoSetCookie, locals)
    /\ Finish(w)
    /\ UNCHANGED <<users, applications, subjects, uploads, serial, now, nano,
                   issued, loggedOut>>

(* ------------------------------ apply: variant 3 ----------------------- *)
applyHandler_v3_inner(w, r) ==
    LET f == r.body IN
    IF r.method # "POST"
    THEN respondError(r, "Method not allowed", 405) /\ ReadOnly
    ELSE IF ~f.ok
    THEN respondError(r, "Failed to parse form", 400) /\ ReadOnly
    ELSE IF f.email = ""
    THEN respondError(r, "Email is required", 400) /\ ReadOnly
    ELSE IF emailExistsQuery(f.email)
    THEN respondError(r, "Email already used", 409) /\ ReadOnly
    ELSE /\ Room
         /\ Goto(w, "files", r, NoLocals)
         /\ UNCHANGED <<db, now, nano, issued, loggedOut, resp>>

applyHandler_v3_start(w, r) ==
    corsMiddleware(r, applyHandler_v3_inner(w, r))

applyHandler_v3_files(w) ==
    LET r == inflight[w].r
        cv == savePDF_v3(r.body.cv, nano + 1, "cv" \in faults)
        motivation == savePDF_v3(r.body.motivation, NextReading(cv),
                                 "motivation" \in faults) IN
    /\ inflight[w].pc = "files"
    /\ IF cv.err
       THEN /\ respondError(r, "Failed to save CV", 500)
            /\ Finish(w)
            /\ UNCHANGED <<db, now, nano, issued, loggedOut>>
       ELSE /\ WriteFiles(cv, motivation)
            /\ Goto(w, "insert", r, [cvPath |-> cv.path,
                                     motivationPath |-> motivation.path, appID |-> 0])
            /\ UNCHANGED <<users, applications, subjects, application_subjects,
                           serial, now, issued, loggedOut, resp>>

applyHandler_v3_insert(w) ==
    LET r == inflight[w].r
        t == parseDate(r.body.early_start_date)
        startDate == IF r.body.early_start_date # "" /\ ~t.err
                     THEN [Valid |-> TRUE, Time |-> t.Time] ELSE NullTime IN
    /\ inflight[w].pc = "insert"
    /\ IF "insert" \in faults
       THEN /\ respondError(r, "Failed to create application", 500)
            /\ Finish(w)
            /\ UNCHANGED <<db, now, nano, issued, loggedOut>>
       ELSE /\ insertApplication(r.body, startDate, inflight[w].locals)
            /\ Goto(w, "subjects", r,
                    [inflight[w].locals EXCEPT !.appID = serial.applications + 1])
            /\ UNCHANGED <<users, subjects, application_subjects, uploads, now,
                           nano, issued, loggedOut, resp>>

applyHandler_v3_subjects(w) ==
    LET r == inflight[w].r
        locals == inflight[w].locals IN
    /\ inflight[w].pc = "subjects"
    /\ application_subjects' = application_subjects \cup joinRows(locals.appID, r.body.subjects)
    /\ ReplyWith(r, 201, [success |-> TRUE, id |-> locals.appID], NoSetCookie, locals)
    /\ Finish(w)
    /\ UNCHANGED <<users, applications, subjects, uploads, serial, now, nano,
                   issued, loggedOut>>

(* ------------------------------ email-exists --------------------------- *)
\* Variant 2: the query parameter is used as it comes.
emailExists_v2(r) ==
    /\ Reply(r, 200, [exists |-> emailExistsQuery(r.body.email)], NoSetCookie)
    /\ ReadOnly

emailExists_v3_inner(r) ==
    IF r.body.email = ""
    THEN respondError(r, "Email parameter required", 400) /\ ReadOnly
    ELSE respondJSON(r, [exists |-> emailExistsQuery(r.body.email)], 200) /\ ReadOnly

emailExists_v3(r) == corsMiddleware(r, emailExists_v3_inner(r))

(* ------------------------------ file delivery -------------------------- *)
\* A URL path is the sequence of its segments: /uploads/../main.go is
\* <<"uploads", "..", "main.go">>.
\* path.Clean as net/http's cleanPath applies it: "." elements are dropped
\* and ".." removes the element before it (none at the root).
RECURSIVE cleanInto(_, _)
cleanInto(done, rest) ==
    IF rest = <<>> THEN done
    ELSE IF Head(rest) = "." THEN cleanInto(done, Tail(rest))
    ELSE IF Head(rest) = ".."
    THEN cleanInto(IF done = <<>> THEN done ELSE SubSeq(done, 1, Len(done) - 1),
                   Tail(rest))
    ELSE cleanInto(Append(done, Head(rest)), Tail(rest))
cleanPath(p) == cleanInto(<<>>, p)

\* containsDotDot of net/http, which http.ServeFile applies to r.URL.Path.
containsDotDot(p) == \E i \in DOMAIN p : p[i] = ".."

\* The name savePDF gave a stored file: uploads/<unixnano>_<filename>.
storedName(u) == ToString(u[1]) \o "_" \o u[2]
\* The files of the server's working directory: the uploads and, next to
\* the upload directory, files that are not uploads.
OutsideFiles == {<<"main.go">>}
Files == {<<"uploads", storedName(u)>> : u \in uploads} \cup OutsideFiles

\* What http.ServeFile and http.FileServer do with the file of a name,
\* which the file system resolves.
serveContent(r, name) ==
    IF cleanPath(name) \in Files
    THEN Reply(r, 200, [file |-> cleanPath(name)], NoSetCookie) /\ ReadOnly
    ELSE Reply(r, 404, "404 page not found", NoSetCookie) /\ ReadOnly

\* http.ServeFile without its test for ".." elements.
ServeFile_unchecked(r, name) == serveContent(r, name)

\* http.ServeFile(w, r, name)
ServeFile_http(r, name) ==
    IF containsDotDot(r.body.path)
    THEN Reply(r, 400, "invalid URL path", NoSetCookie) /\ ReadOnly
    ELSE serveContent(r, name)

\* Variant 1: http.StripPrefix("/uploads/", http.FileServer(http.Dir("uploads")));
\* the file server cleans the stripped path and opens it under the directory.
fileServer_v1(r) ==
    serveContent(r, <<"uploads">> \o cleanPath(Tail(r.body.path)))

\* Variant 2: the path is handed to http.ServeFile as it is.
serveFile_v2(r) ==
    IF r.method = "OPTIONS"
    THEN Reply(r, 200, "", NoSetCookie) /\ ReadOnly
    ELSE ServeFile_http(r, r.body.path)

\* Variant 3: r.URL.Path[1:] begins with "uploads/" for every request the
\* mux hands over, so the test filePath[0] == '.' is made on the letter u.
serveFile_v3_inner(r) ==
    IF r.method # "GET"
    THEN respondError(r, "Method not allowed", 405) /\ ReadOnly
    ELSE IF r.body.path = <<>> \/ Head(r.body.path) \in {".", ".."}
    THEN respondError(r, "Invalid file path", 400) /\ ReadOnly
    ELSE ServeFile_http(r, r.body.path)

serveFile_v3(r) == corsMiddleware(r, serveFile_v3_inner(r))

\* http.ServeMux: a request that is not CONNECT and whose path is not
\* clean is redirected to the clean path; the others go to the handler of
\* the longest pattern that matches, here "/uploads/".
serveMux(r, next) ==
    IF r.method # "CONNECT" /\ cleanPath(r.body.path) # r.body.path
    THEN Reply(r, 301, [location |-> cleanPath(r.body.path)], NoSetCookie) /\ ReadOnly
    ELSE next

(* ------------------------------ routes --------------------------------- *)
Request(route, method, cookie, body) ==
    [route |-> route, method |-> method, cookie |-> cookie, body |-> body]

SubjectIds == 1..3
DeleteBodies ==
    {[ok |-> FALSE, ids |-> <<>>], [ok |-> TRUE, ids |-> <<>>]}
    \cup {[ok |-> TRUE, ids |-> <<i>>] : i \in SubjectIds}
    \cup {[ok |-> TRUE, ids |-> <<1, 2>>]}

\* http.HandleFunc("/signup", ...): variant 1 has no such route.
Signup(bodies) ==
    /\ UNCHANGED <<variant, deleting, faults, ui>>
    /\ \E m \in Methods("POST"), b \in bodies :
           LET r == Request("signup", m, NoCookie, b) IN
           \/ variant = 2 /\ signup_v2(r)
           \/ variant = 3 /\ signup_v3(r)

Login(bodies) ==
    /\ UNCHANGED <<variant, deleting, faults, ui>>
    /\ \E m \in Methods("POST"), c \in {NoCookie}, b \in bodies :
           LET r == Request("login", m, c, b) IN
           \/ variant = 2 /\ login_v2(r)
           \/ variant = 3 /\ login_v3(r)

Logout ==
    /\ UNCHANGED <<variant, deleting, faults, ui>>
    /\ \E m \in Methods("POST"), c \in Cookies :
           LET r == Request("logout", m, c, NoBody) IN
           \/ variant = 2 /\ logout_v2(r)
           \/ variant = 3 /\ logout_v3(r)

Me ==
    /\ UNCHANGED <<variant, deleting, faults, ui>>
    /\ \E m \in Methods("GET"), c \in Cookies :
           LET r == Request("me", m, c, NoBody) IN
           \/ variant = 2 /\ me_v2(r)
           \/ variant = 3 /\ me_v3(r)

\* http.HandleFunc("/applications", ...)
ListApplications ==
    /\ UNCHANGED <<variant, deleting, faults, ui>>
    /\ \E m \in Methods("GET"), c \in Cookies :
           LET r == Request("applications", m, c, NoBody) IN
           \/ variant = 1 /\ listApplications_v1(r)
           \/ variant = 2 /\ authRequired_v2("admin", r, listApplications_v2(r))
           \/ variant = 3 /\ authRequired_v3("admin", r, listApplications_v3(r))

\* http.HandleFunc("/weekly-applications", ...)
WeeklyApplications ==
    /\ UNCHANGED <<variant, deleting, faults, ui>>
    /\ \E m \in Methods("GET"), c \in Cookies :
           LET r == Request("weekly-applications", m, c, NoBody) IN
           \/ variant = 1 /\ getWeeklyApplications_v1(r)
           \/ variant = 2 /\ authRequired_v2("admin", r, weeklyApplications_v2(r))
           \/ variant = 3 /\ authRequired_v3("admin", r, weeklyApplications_v3(r))

\* http.HandleFunc("/subjects/delete", ...): variant 2 registers the
\* handler bare, variant 3 behind authRequired("admin", ...).
DeleteSubjects(bodies) ==
    /\ UNCHANGED <<variant, deleting, faults, ui>>
    /\ \E m \in Methods("DELETE"), c \in Cookies, b \in bodies :
           LET r == Request("subjects/delete", m, c, b) IN
           \/ variant = 2 /\ deleteSubjects_v2(r)
           \/ variant = 3 /\ authRequired_v3("admin", r, deleteSubjects_v3(r))

\* The batch delete as the statements it is made of, which the statements
\* of other requests can come between.
DeleteSubjectsBegin(bodies) ==
    /\ UNCHANGED <<variant, faults, ui>>
    /\ deleting.pc = "idle"
    /\ \E c \in Cookies, b \in bodies :
           LET r == Request("subjects/delete", "DELETE", c, b) IN
           \/ variant = 2 /\ deleteSubjects_v2_joins(r)
           \/ variant = 3 /\ authRequired_v3("admin", r, deleteSubjects_v3_query(r))

DeleteSubjectsEnd ==
    /\ UNCHANGED <<variant, faults, ui>>
    /\ \/ variant = 2 /\ deleteSubjects_v2_subjects
       \/ variant = 3 /\ deleteSubjects_v3_tx

\* The requests sent to /subjects: creates and renames with a fresh name,
\* a name already stored, no name, and a body that does not decode.
SubjectBodies ==
    {[ok |-> FALSE, id |-> 0, name |-> ""]}
    \cup {[ok |-> TRUE, id |-> 0, name |-> n] : n \in {"", "AI", "ML"}}
    \cup {[ok |-> TRUE, id |-> i, name |-> n] : i \in {1, 3}, n \in {"ML", "Web"}}

\* http.HandleFunc("/subjects", ...): variant 1 has no such route.
Subjects(bodies) ==
    /\ UNCHANGED <<variant, deleting, faults, ui>>
    /\ \E m \in {"GET", "POST", "PUT", "DELETE", "OPTIONS"}, b \in bodies :
           LET r == Request("subjects", m, NoCookie, b) IN
           \/ variant = 2 /\ subjectsHandler_v2(r)
           \/ variant = 3 /\ subjectsHandler_v3(r)

\* The server's clock moves on between requests.
Tick ==
    /\ now < MaxClock
    /\ now' = now + 1
    /\ UNCHANGED <<variant, db, nano, issued, loggedOut, inflight, deleting,
                   faults, ui, resp>>

\* http.HandleFunc("/email-exists", ...): variant 1 has no such route.
EmailExists ==
    /\ UNCHANGED <<variant, deleting, faults, ui>>
    /\ \E m \in Methods("GET"), e \in {"", "a@b.tn", "c@d.tn"} :
           LET r == Request("email-exists", m, NoCookie, [ok |-> TRUE, email |-> e]) IN
           \/ variant = 2 /\ emailExists_v2(r)
           \/ variant = 3 /\ emailExists_v3(r)

\* The paths asked of file delivery: every stored file, a file that is not
\* stored, and paths that leave the upload directory.
DeliveryPaths ==
    {<<"uploads", storedName(u)>> : u \in uploads}
    \cup {<<"uploads", "missing.pdf">>, <<"uploads", ".", "missing.pdf">>,
          <<"uploads", "..", "main.go">>, <<"uploads", "..", ".env">>,
          <<"uploads", "..", "uploads", "missing.pdf">>,
          <<"..", "uploads", "missing.pdf">>}

\* The pattern "/uploads/" of the mux: the requests it redirects and those
\* whose path the pattern matches (a CONNECT request is matched on the path
\* as sent).
ServeFile(paths) ==
    /\ UNCHANGED <<variant, deleting, faults, ui>>
    /\ \E m \in {"GET", "POST", "OPTIONS", "CONNECT"}, p \in paths :
           LET r == Request("uploads", m, NoCookie, [ok |-> TRUE, path |-> p]) IN
           /\ m = "CONNECT" => Head(p) = "uploads"
           /\ \/ variant = 1 /\ serveMux(r, fileServer_v1(r))
              \/ variant = 2 /\ serveMux(r, serveFile_v2(r))
              \/ variant = 3 /\ serveMux(r, serveFile_v3(r))

\* The apply page validates a form before it submits it; the server it
\* asks about the email is one that serves /email-exists.
ValidateForm(forms) ==
    /\ UNCHANGED <<variant, deleting, faults, ui>>
    /\ variant \in {2, 3}
    /\ \E f \in forms :
           /\ Reply(Request("validateForm", "", NoCookie, f), 0,
                    validateForm(f, emailExistsQuery(f.email)), NoSetCookie)
           /\ ReadOnly

\* http.HandleFunc("/apply", ...): the handler up to its first statement
\* that another request can interleave with.
ApplyStart(w, forms) ==
    /\ UNCHANGED <<variant, deleting, faults, ui>>
    /\ \E m \in Methods("POST"), f \in forms :
           LET r == Request("apply", m, NoCookie, f) IN
           /\ inflight[w].pc = "idle"
           /\ \/ variant = 1 /\ applyHandler_v1_start(w, r)
              \/ variant = 2 /\ applyHandler_v2_start(w, r)
              \/ variant = 3 /\ applyHandler_v3_start(w, r)

ApplyFiles(w) ==
    /\ UNCHANGED <<variant, deleting, faults, ui>>
    /\ \/ variant = 1 /\ applyHandler_v1_files(w)
       \/ variant = 2 /\ applyHandler_v2_files(w)
       \/ variant = 3 /\ applyHandler_v3_files(w)

ApplyInsert(w) ==
    /\ UNCHANGED <<variant, deleting, faults, ui>>
    /\ \/ variant = 1 /\ applyHandler_v1_insert(w)
       \/ variant = 2 /\ applyHandler_v2_insert(w)
       \/ variant = 3 /\ applyHandler_v3_insert(w)

ApplySubjects(w) ==
    /\ UNCHANGED <<variant, deleting, faults, ui>>
    /\ \/ variant = 1 /\ applyHandler_v1_subjects(w)
       \/ variant = 2 /\ applyHandler_v2_subjects(w)
       \/ variant = 3 /\ applyHandler_v3_subjects(w)

(* ------------------------------ the backoffice page -------------------- *)
\* Texts are sequences of characters, so that includes() and the order of
\* two strings under < are computed. The UTF-16 code unit of a character:
CodeUnit(c) ==
    CASE c = " " -> 32 [] c = "0" -> 48 [] c = "1" -> 49 [] c = "2" -> 50
      [] c = "@" -> 64 [] c = "A" -> 65 [] c = "B" -> 66 [] c = "Z" -> 90
      [] c = "a" -> 97 [] c = "b" -> 98 [] c = "z" -> 122

\* String.prototype.toLowerCase
toLowerCase(s) ==
    [i \in DOMAIN s |-> CASE s[i] = "A" -> "a" [] s[i] = "B" -> "b"
                          [] s[i] = "Z" -> "z" [] OTHER -> s[i]]

\* String.prototype.includes with a text to look for
includesText(s, t) ==
    \E i \in 0..(Len(s) - Len(t)) : \A k \in 1..Len(t) : s[i + k] = t[k]

\* v1 < v2 on two strings: the order of their code units.
RECURSIVE lessThan(_, _)
lessThan(s, t) ==
    IF t = <<>> THEN FALSE
    ELSE IF s = <<>> THEN TRUE
    ELSE IF CodeUnit(Head(s)) # CodeUnit(Head(t))
    THEN CodeUnit(Head(s)) < CodeUnit(Head(t))
    ELSE lessThan(Tail(s), Tail(t))

\* useState(...): the state of the page when it is mounted; pending says
\* that the fetch of useEffect has not been answered yet.
InitialUi ==
    [applications |-> <<>>, search |-> <<>>, sortKey |-> "created_at",
     sortDir |-> "desc", page |-> 1, pageSize |-> 5, filtersVisible |-> FALSE,
     filters |-> [degree_level |-> "", application_type |-> ""], pending |-> TRUE]

\* const filtered = useMemo(...)
filtered(u) ==
    LET keep(a) ==
          LET searchMatch == includesText(toLowerCase(a.full_name \o <<" ">> \o a.email),
                                          toLowerCase(u.search))
              degreeMatch == IF u.filters.degree_level # ""
                             THEN a.degree_level = u.filters.degree_level ELSE TRUE
              typeMatch == IF u.filters.application_type # ""
                           THEN a.application_type = u.filters.application_type ELSE TRUE
          IN searchMatch /\ degreeMatch /\ typeMatch
    IN SelectSeq(u.applications, keep)

\* The comparator handed to sort: negative, zero or positive.
compare(a, b, sortKey, sortDir) ==
    LET v1 == a[sortKey]
        v2 == b[sortKey] IN
    IF lessThan(v1, v2) THEN (IF sortDir = "asc" THEN -1 ELSE 1)
    ELSE IF lessThan(v2, v1) THEN (IF sortDir = "asc" THEN 1 ELSE -1)
    ELSE 0

\* Array.prototype.sort is stable: a row goes behind the rows it does not
\* come before.
RECURSIVE insertSorted(_, _, _, _)
insertSorted(a, rows, sortKey, sortDir) ==
    IF rows = <<>> THEN <<a>>
    ELSE IF compare(a, Head(rows), sortKey, sortDir) < 0 THEN <<a>> \o rows
    ELSE <<Head(rows)>> \o insertSorted(a, Tail(rows), sortKey, sortDir)

RECURSIVE sortRows(_, _, _)
sortRows(rows, sortKey, sortDir) ==
    IF rows = <<>> THEN <<>>
    ELSE insertSorted(rows[Len(rows)],
                      sortRows(SubSeq(rows, 1, Len(rows) - 1), sortKey, sortDir),
                      sortKey, sortDir)

\* const sorted = useMemo(...)
sorted(u) == sortRows(filtered(u), u.sortKey, u.sortDir)

\* Math.ceil(sorted.length / pageSize)
totalPages(u) == (Len(sorted(u)) + u.pageSize - 1) \div u.pageSize

\* Array.prototype.slice(begin, end) for 0 <= begin <= end.
slice(s, begin, end) ==
    LET from == IF begin > Len(s) THEN Len(s) ELSE begin
        to == IF end > Len(s) THEN Len(s) ELSE end IN
    SubSeq(s, from + 1, to)

\* const paginated = sorted.slice((page - 1) * pageSize, page * pageSize)
paginated(u) == slice(sorted(u), (u.page - 1) * u.pageSize, u.page * u.pageSize)

\* toggleSort, were the direction kept when the key changes.
toggleSort_keepsDir(key) ==
    IF ui.sortKey = key
    THEN ui' = [ui EXCEPT !.sortDir = IF ui.sortDir = "asc" THEN "desc" ELSE "asc"]
    ELSE ui' = [ui EXCEPT !.sortKey = key]

\* const toggleSort = (key) => {...}
toggleSort(key) ==
    IF ui.sortKey = key
    THEN ui' = [ui EXCEPT !.sortDir = IF ui.sortDir = "asc" THEN "desc" ELSE "asc"]
    ELSE ui' = [ui EXCEPT !.sortKey = key, !.sortDir = "asc"]

\* const handleFilterChange = (key, value) => {...}
handleFilterChange(key, value) ==
    ui' = [ui EXCEPT !.page = 1, !.filters = [ui.filters EXCEPT ![key] = value]]

\* onChange of the search box
searchChange(value) == ui' = [ui EXCEPT !.page = 1, !.search = value]

\* onChange of the page-size select
pageSizeChange(value) == ui' = [ui EXCEPT !.page = 1, !.pageSize = value]

\* The user and the network act on the page; the server is left alone.
ServerUnchanged ==
    UNCHANGED <<variant, db, now, nano, issued, loggedOut, inflight, deleting,
                faults, resp>>

\* .then(setApplications): the list fetched when the page was mounted.
SetApplications(lists) ==
    /\ ui.pending
    /\ \E l \in lists : ui' = [ui EXCEPT !.applications = l, !.pending = FALSE]
    /\ ServerUnchanged

SearchChange(texts) ==
    /\ \E t \in texts : searchChange(t)
    /\ ServerUnchanged

\* The Filters button; the two selects are rendered while filtersVisible.
FiltersButton ==
    /\ ui' = [ui EXCEPT !.filtersVisible = ~ui.filtersVisible]
    /\ ServerUnchanged

FilterChange ==
    /\ ui.filtersVisible
    /\ \/ \E v \in {"", "Engineering", "Bachelor", "Master"} :
              handleFilterChange("degree_level", v)
       \/ \E v \in {"", "Solo", "Pair"} : handleFilterChange("application_type", v)
    /\ ServerUnchanged

PageSizeChange ==
    /\ \E size \in {5, 10, 20, 50} : pageSizeChange(size)
    /\ ServerUnchanged

\* <th onClick={() => toggleSort("created_at")}>, ...("full_name")
ToggleSort ==
    /\ \E key \in {"created_at", "full_name"} : toggleSort(key)
    /\ ServerUnchanged

\* <button disabled={page === 1} onClick={() => setPage(page - 1)}>
PreviousPage ==
    /\ ui.page # 1
    /\ ui' = [ui EXCEPT !.page = ui.page - 1]
    /\ ServerUnchanged

\* <button disabled={page === totalPages} onClick={() => setPage(page + 1)}>
NextPage ==
    /\ ui.page # totalPages(ui)
    /\ ui.page < MaxPage
    /\ ui' = [ui EXCEPT !.page = ui.page + 1]
    /\ ServerUnchanged

(* ------------------------------ initial states ------------------------- *)
\* The controlled vocabulary the admins have entered.
SeedSubjects == {[id |-> 1, name |-> "AI"], [id |-> 2, name |-> "Web"]}

\* The store after the subjects were entered and before any submission.
InitEmpty ==
    /\ variant \in {1, 2, 3}
    /\ users = {}
    /\ applications = {}
    /\ subjects = SeedSubjects
    /\ application_subjects = {}
    /\ uploads = {}
    /\ serial = [users |-> 0, applications |-> 0, subjects |-> 2]
    /\ now = 0
    /\ nano = 0
    /\ issued = {}
    /\ loggedOut = {}
    /\ inflight = [w \in Workers |-> Idle]
    /\ deleting = NotDeleting
    /\ faults = {}
    /\ ui = InitialUi
    /\ resp = NoResponse

\* The store after the submission GoodForm was accepted: the state apply
\* leaves behind (SeededStore, which SpecApply reaches).
SeedApplication ==
    [id |-> 1, email |-> GoodForm.email, phone |-> GoodForm.phone,
     start_date |-> NullTime, created_at |-> 0,
     cv_file_path |-> <<1, "cv.pdf">>, motivation_file_path |-> NoPath]

SeededStore ==
    /\ applications = {SeedApplication}
    /\ subjects = SeedSubjects
    /\ application_subjects = IF variant = 1 THEN {<<1, "AI">>} ELSE {<<1, 1>>}
    /\ uploads = {<<1, "cv.pdf">>}
    /\ serial = [users |-> 0, applications |-> 1, subjects |-> 2]

InitSeeded ==
    /\ variant \in {1, 2, 3}
    /\ users = {}
    /\ applications = {SeedApplication}
    /\ subjects = SeedSubjects
    /\ application_subjects = IF variant = 1 THEN {<<1, "AI">>} ELSE {<<1, 1>>}
    /\ uploads = {<<1, "cv.pdf">>}
    /\ serial = [users |-> 0, applications |-> 1, subjects |-> 2]
    /\ now = 0
    /\ nano = 0
    /\ issued = {}
    /\ loggedOut = {}
    /\ inflight = [w \in Workers |-> Idle]
    /\ deleting = NotDeleting
    /\ faults = {}
    /\ ui = InitialUi
    /\ resp = NoResponse

\* The store after alice signed up as admin and logged in, before any
\* submission (variant 1 has no accounts).
AdminUser ==
    [id |-> 1, username |-> GoodSignup.username, email |-> GoodSignup.email,
     password_hash |-> GenerateFromPassword(GoodSignup.password), role |-> "admin"]

InitAdmin ==
    /\ variant \in {1, 2, 3}
    /\ users = IF variant = 1 THEN {} ELSE {AdminUser}
    /\ applications = {}
    /\ subjects = SeedSubjects
    /\ application_subjects = {}
    /\ uploads = {}
    /\ serial = [users |-> IF variant = 1 THEN 0 ELSE 1, applications |-> 0,
                 subjects |-> 2]
    /\ now = 0
    /\ nano = IF variant = 1 THEN 0 ELSE 1
    /\ issued = IF variant = 1 THEN {} ELSE {SignedCookie(loginValues(AdminUser), 1)}
    /\ loggedOut = {}
    /\ inflight = [w \in Workers |-> Idle]
    /\ deleting = NotDeleting
    /\ faults = {}
    /\ ui = InitialUi
    /\ resp = NoResponse

(* ------------------------------ specifications ------------------------- *)
\* Sessions, the auth gate and the admin-only routes, over a store that
\* holds one application, with an admin and a plain user signing up.
SessionLogins ==
    {[ZeroAuthBody EXCEPT !.username = b.username, !.password = b.password] :
        b \in {GoodSignup, OtherSignup}}
Next ==
    \/ Signup({GoodSignup, OtherSignup})
    \/ Login(SessionLogins)
    \/ Logout
    \/ Me
    \/ ListApplications
    \/ WeeklyApplications
    \/ DeleteSubjects(DeleteBodies)

Spec == InitSeeded /\ [][Next]_vars

\* Accounts: every signup and every login tried.
NextLogin ==
    \/ Signup(AuthBodies)
    \/ Login(LoginBodies)

SpecLogin == InitSeeded /\ [][NextLogin]_vars

\* The intake pipeline, one request at a time.
NextApply ==
    \/ ApplyStart(1, ApplyForms)
    \/ ApplyFiles(1)
    \/ ApplyInsert(1)
    \/ ApplySubjects(1)

SpecApply == InitEmpty /\ [][NextApply]_vars

\* The intake pipeline under concurrent submissions.
RaceForms == {GoodForm, [GoodForm EXCEPT !.phone = Phone7]}
NextRace ==
    \E w \in Workers :
        \/ ApplyStart(w, RaceForms)
        \/ ApplyFiles(w)
        \/ ApplyInsert(w)
        \/ ApplySubjects(w)

SpecRace == InitEmpty /\ [][NextRace]_vars

\* The backoffice: submissions come in while the admin edits the subjects
\* and lists the applications.
ListingForms ==
    {[GoodForm EXCEPT !.subjects = <<"AI", "Web">>],
     [GoodForm EXCEPT !.email = "c@d.tn", !.subjects = <<"Nope">>]}
ListingSubjects ==
    {[ok |-> TRUE, id |-> 0, name |-> "ML"], [ok |-> TRUE, id |-> 1, name |-> "ML"]}
ListingDeletes == {[ok |-> TRUE, ids |-> <<1>>]}
NextListing ==
    \/ ApplyStart(1, ListingForms)
    \/ ApplyFiles(1)
    \/ ApplyInsert(1)
    \/ ApplySubjects(1)
    \/ Subjects(ListingSubjects)
    \/ DeleteSubjects(ListingDeletes)
    \/ ListApplications
    \/ Tick

SpecListing == InitAdmin /\ [][NextListing]_vars

\* The controlled vocabulary: subjects are created, renamed and deleted.
NextSubjects ==
    \/ Subjects(SubjectBodies)
    \/ DeleteSubjects(DeleteBodies)

SpecSubjects == InitAdmin /\ [][NextSubjects]_vars

\* Submissions with a start date, and the listing that shows them.
DateForms ==
    {[GoodForm EXCEPT !.early_start_date = "2026-02-01"],
     [GoodForm EXCEPT !.email = "c@d.tn", !.early_start_date = "01/02/2026"]}
NextDates ==
    \/ ApplyStart(1, DateForms)
    \/ ApplyFiles(1)
    \/ ApplyInsert(1)
    \/ ApplySubjects(1)
    \/ ListApplications

SpecDates == InitAdmin /\ [][NextDates]_vars

\* File delivery next to the intake that stores the files.
NextFiles ==
    \/ ApplyStart(1, RaceForms)
    \/ ApplyFiles(1)
    \/ ApplyInsert(1)
    \/ ApplySubjects(1)
    \/ ServeFile(DeliveryPaths)

SpecFiles == InitEmpty /\ [][NextFiles]_vars

\* Every operation of the server next to the intake, over a store that
\* submissions fill.
WriteOnceLogins == {[ZeroAuthBody EXCEPT !.username = GoodSignup.username,
                                        !.password = GoodSignup.password]}
NextWriteOnce ==
    \/ ApplyStart(1, {[GoodForm EXCEPT !.subjects = <<"AI", "Web">>]})
    \/ ApplyFiles(1)
    \/ ApplyInsert(1)
    \/ ApplySubjects(1)
    \/ Signup({OtherSignup})
    \/ Login(WriteOnceLogins)
    \/ Logout
    \/ Me
    \/ EmailExists
    \/ ListApplications
    \/ WeeklyApplications
    \/ Subjects(ListingSubjects)
    \/ DeleteSubjects(ListingDeletes)
    \/ ServeFile({<<"uploads", "missing.pdf">>})

SpecWriteOnce == InitAdmin /\ [][NextWriteOnce]_vars

\* A batch delete of subject 1 while a submission that names it comes in.
RaceDeletes == {[ok |-> TRUE, ids |-> <<1>>], [ok |-> TRUE, ids |-> <<1, 2>>]}
NextDeleteRace ==
    \/ ApplyStart(1, {GoodForm, [GoodForm EXCEPT !.subjects = <<"AI", "Web">>]})
    \/ ApplyFiles(1)
    \/ ApplyInsert(1)
    \/ ApplySubjects(1)
    \/ DeleteSubjectsBegin(RaceDeletes)
    \/ DeleteSubjectsEnd

SpecDeleteRace == InitAdmin /\ [][NextDeleteRace]_vars

\* Submissions that break several rules at once, validated by the page and
\* sent to the server.
OrderForms ==
    {[GoodForm EXCEPT !.email = e, !.phone = p, !.subjects = s, !.cv = c] :
        e \in {"a@b.tn", "ab.tn"}, p \in {Phone8, Phone7},
        s \in {<<"AI">>, <<>>}, c \in {PdfFile("cv.pdf"), PngFile("cv.png")}}
NextOrder ==
    \/ ValidateForm(OrderForms)
    \/ ApplyStart(1, OrderForms)
    \/ ApplyFiles(1)
    \/ ApplyInsert(1)
    \/ ApplySubjects(1)

SpecOrder == InitEmpty /\ [][NextOrder]_vars

\* Accounts and the routes behind the gate: signup, login, and the three
\* admin operations with the cookies login has handed out.
NextEscalate ==
    \/ Signup({GoodSignup, OtherSignup})
    \/ Login(SessionLogins)
    \/ ListApplications
    \/ WeeklyApplications
    \/ DeleteSubjects(DeleteBodies)

SpecEscalate == InitSeeded /\ [][NextEscalate]_vars

(* ======================================================================= *)
(*                               Claims                                    *)
(* ======================================================================= *)
\* main(): the routes registered behind authRequired("admin", ...).
WrappedByAuthRequired ==
    CASE variant = 1 -> {}
      [] variant = 2 -> {"applications", "weekly-applications"}
      [] variant = 3 -> {"applications", "weekly-applications", "subjects/delete"}

\* The role the request's session carries, if it carries one.
SessionOf(cookie) == storeGet(cookie).values
HasAdminSession(cookie) == SessionOf(cookie).has /\ SessionOf(cookie).role = "admin"

\* The request completed last, when it was to one of the routes and no CORS
\* preflight. In Spec every step completes a request, so resp' is the answer
\* of the step taken.
Answered(routes) == resp.route \in routes /\ resp.method # "OPTIONS"
\* The answers of the handlers behind the gate.
HandlerCodes == {200, 400, 405}

\* C1: a request to a route wrapped by authRequired is answered 401 when its
\* session holds no role value and 403 when the role is not the required
\* one, in both cases without the handler running or the store changing;
\* otherwise the handler answers.
C1_GateState ==
    Answered(WrappedByAuthRequired) =>
        /\ ~SessionOf(resp.cookie).has => resp.code = 401
        /\ SessionOf(resp.cookie).has /\ ~HasAdminSession(resp.cookie) => resp.code = 403
        /\ HasAdminSession(resp.cookie) => resp.code \in HandlerCodes
C1_GateFrame ==
    (resp'.route \in WrappedByAuthRequired /\ resp'.code \in {401, 403}) => UNCHANGED db
C1_AuthGate == [](C1_GateState) /\ [][C1_GateFrame]_vars

\* C2: after logout, a request to a role-gated route that presents the
\* cookie the logout was made with is answered 401.
C2_LogoutInvalidates ==
    (Answered(WrappedByAuthRequired) /\ resp.cookie \in loggedOut) => resp.code = 401

\* C3: list applications, weekly count and subjects delete answer 401 or 403
\* and change nothing unless the caller's session role is "admin". (Stated
\* for the variants that have sessions, for the method that performs the
\* operation and for cookies the store decodes.)
AdminRoutes == {"applications", "weekly-applications", "subjects/delete"}
OperationMethod(route) == IF route = "subjects/delete" THEN "DELETE" ELSE "GET"
C3_AdminOnlyState ==
    (variant \in {2, 3} /\ resp.route \in AdminRoutes
       /\ resp.method = OperationMethod(resp.route)
       /\ resp.cookie.kind # "garbage" /\ ~HasAdminSession(resp.cookie))
        => resp.code \in {401, 403}
C3_AdminOnlyFrame ==
    (resp'.route \in AdminRoutes /\ ~HasAdminSession(resp'.cookie)) => UNCHANGED db
C3_AdminOnly == [](C3_AdminOnlyState) /\ [][C3_AdminOnlyFrame]_vars

\* C5: a request to a protected route with a cookie the store cannot decode
\* or verify is answered 401, like a request with no session.
C5_InvalidToken ==
    (Answered(WrappedByAuthRequired) /\ resp.cookie.kind = "garbage") => resp.code = 401

\* The login request completed last, its decoded body, and the users whose
\* username and password it carries.
LoginAnswered == resp.route = "login" /\ resp.method = "POST"
LoginBody == decodeAuthBody(resp.body_in)
Verified ==
    {u \in users : /\ u.username = LoginBody.username
                   /\ CompareHashAndPassword(u.password_hash, LoginBody.password)}
SessionIssued == resp.setCookie.set /\ resp.setCookie.maxAge > 0
\* A body the validating variant turns away before it looks the user up.
MalformedLogin ==
    variant = 3 /\ (~resp.body_in.ok \/ LoginBody.username = "" \/ LoginBody.password = "")
LoginFrame ==
    resp'.route = "login" =>
        /\ UNCHANGED users
        /\ resp'.code # 200 => issued' = issued

\* C4 (as stated): login answers 401 and issues no session when no user has
\* the username or the password does not verify; otherwise it issues a
\* session whose user_id, role and username are those of the stored user;
\* it never modifies the users table.
C4_LoginAsStatedState ==
    LoginAnswered =>
        IF Verified = {}
        THEN resp.code = 401 /\ ~resp.setCookie.set
        ELSE /\ resp.code = 200
             /\ SessionIssued
             /\ \E u \in Verified : resp.setCookie.values = loginValues(u)
C4_LoginState ==
    LoginAnswered =>
        IF MalformedLogin
        THEN resp.code = 400 /\ ~resp.setCookie.set
        ELSE IF Verified = {}
        THEN resp.code = 401 /\ ~resp.setCookie.set
        ELSE /\ resp.code = 200
             /\ SessionIssued
             /\ \E u \in Verified :
                    /\ resp.setCookie.values = loginValues(u)
                    /\ resp.setCookie.values.user_id = u.id
                    /\ resp.setCookie.values.role = u.role
                    /\ resp.setCookie.values.username = u.username
ApplyAnswered ==
    /\ resp.route = "apply" /\ resp.method = "POST" /\ resp.body_in.ok
    /\ \A w \in Workers : inflight[w].pc = "idle"
\* The step taken is a statement of worker w's apply request that changes
\* what is stored.
Persists(w) ==
    inflight[w].pc # "idle" /\ inflight'[w] # inflight[w] /\ db' # db
\* A row other than the request's own holds the email.
EmailTaken(email, ownID) == \E a \in applications : a.email = email /\ a.id # ownID
Succeeded == resp.code \in {200, 201} /\ resp.locals.appID # 0
Refused(code) == resp.code = code /\ resp.locals = NoLocals

\* C6: an apply submission whose email is already that of a stored
\* application is answered 409, and no statement of it changes the
\* application rows, the join rows or the uploaded files.
C6_DuplicateState ==
    (ApplyAnswered /\ EmailTaken(resp.body_in.email, resp.locals.appID)) => Refused(409)
C6_DuplicateFrame ==
    \A w \in Workers :
        Persists(w) => ~EmailTaken(inflight[w].r.body.email, inflight[w].locals.appID)
C6_DuplicateEmail == [](C6_DuplicateState) /\ [][C6_DuplicateFrame]_vars

\* C7: no two stored applications have the same email, whatever the
\* interleaving of apply requests that check for the email and insert the
\* row in separate steps.
C7_EmailUnique ==
    variant \in {2, 3} =>
        \A a \in applications : \A b \in applications : a.email = b.email => a.id = b.id

\* C8: an apply submission with no subject selected is answered 400 and no
\* statement of it creates an application row, a join row or a file.
C8_NoSubjectsState ==
    (ApplyAnswered /\ Len(resp.body_in.subjects) = 0) => Refused(400)
C8_NoSubjectsFrame ==
    \A w \in Workers : Persists(w) => Len(inflight[w].r.body.subjects) # 0
C8_NoSubjects == [](C8_NoSubjectsState) /\ [][C8_NoSubjectsFrame]_vars

\* C9: an apply submission whose cv part, or whose motivation part when
\* present, is not of content type application/pdf is answered 400 and
\* creates no application row; a submission that is valid and leaves the
\* motivation part out succeeds.
NotPdf(part) == part.present /\ part.content_type # "application/pdf"
ValidWithoutMotivation(f) ==
    /\ f.email # "" /\ validPhone(f.phone) /\ Len(f.subjects) > 0
    /\ f.cv.present /\ ~NotPdf(f.cv) /\ ~f.motivation.present
C9_PdfOnlyState ==
    ApplyAnswered =>
        /\ NotPdf(resp.body_in.cv) \/ NotPdf(resp.body_in.motivation) => Refused(400)
        /\ (ValidWithoutMotivation(resp.body_in)
              /\ ~EmailTaken(resp.body_in.email, resp.locals.appID)) => Succeeded
C9_PdfOnlyFrame ==
    \A w \in Workers :
        (inflight[w].pc # "idle" /\ inflight'[w] # inflight[w]
            /\ applications' # applications)
        => ~NotPdf(inflight[w].r.body.cv) /\ ~NotPdf(inflight[w].r.body.motivation)
C9_PdfOnly == [](C9_PdfOnlyState) /\ [][C9_PdfOnlyFrame]_vars

\* C10: an apply request, sent by the form or directly, whose phone does
\* not have exactly 8 digits once every other character is removed is
\* answered 400, and no application with such a phone is stored.
C10_PhoneState ==
    /\ (ApplyAnswered /\ ~validPhone(resp.body_in.phone)) => Refused(400)
    /\ \A a \in applications : validPhone(a.phone)
C10_PhoneFrame ==
    \A w \in Workers : Persists(w) => validPhone(inflight[w].r.body.phone)
C10_PhoneEightDigits == [](C10_PhoneState) /\ [][C10_PhoneFrame]_vars

\* C11: an apply request whose email does not contain an "@" and a "."
\* after it is answered 400, and no statement of it stores anything; no
\* stored application has such an email.
C11_EmailState ==
    /\ (ApplyAnswered /\ ~validEmail(resp.body_in.email)) => Refused(400)
    /\ \A a \in applications : validEmail(a.email)
C11_EmailFrame ==
    \A w \in Workers : Persists(w) => validEmail(inflight[w].r.body.email)
C11_EmailSyntax == [](C11_EmailState) /\ [][C11_EmailFrame]_vars

\* The step taken completes a signup; the user its body names is already
\* registered (in the state before the step); the validating variant turns
\* the body away.
SignupStep == resp'.route = "signup" /\ resp'.method = "POST"
Registered(b) == \E u \in users : u.username = b.username \/ u.email = b.email
MalformedSignup(raw) ==
    variant = 3 /\ (~raw.ok \/ raw.username = "" \/ raw.email = "" \/ raw.password = "")
UsernamesDistinct ==
    \A u \in users : \A v \in users : u.username = v.username => u.id = v.id

\* C12 (as stated): a signup whose username or email is already registered
\* is answered 409 and leaves the users table unchanged; stored usernames
\* are pairwise distinct.
C12_SignupAsStatedFrame ==
    (SignupStep /\ Registered(decodeAuthBody(resp'.body_in)))
        => resp'.code = 409 /\ UNCHANGED users
C12_SignupAsStated == [](UsernamesDistinct) /\ [][C12_SignupAsStatedFrame]_vars

\* C12 (amended): a signup whose username or email is already registered,
\* and whose body the handler does not turn away as malformed (not JSON, or
\* an empty username, email or password, where the handler validates), is
\* answered 409; a malformed one is answered 400; either way the users table
\* is unchanged. Stored usernames are pairwise distinct.
C12_SignupFrame ==
    (SignupStep /\ Registered(decodeAuthBody(resp'.body_in)))
        => /\ resp'.code = IF MalformedSignup(resp'.body_in) THEN 400 ELSE 409
           /\ UNCHANGED users
C12_SignupConflict == [](UsernamesDistinct) /\ [][C12_SignupFrame]_vars
\* A signup for a registered user has been answered 409.
C12_SignupWitness ==
    /\ resp.route = "signup" /\ resp.method = "POST" /\ resp.code = 409
    /\ Registered(decodeAuthBody(resp.body_in))

\* C13: every stored user has role "user" or "admin"; a signup that stores
\* a user stores role "admin" when the request asks for "admin" and role
\* "user" for any other requested role, the empty one included.
RoleFor(requested) == IF requested = "admin" THEN "admin" ELSE "user"
C13_RoleState == \A u \in users : u.role \in {"user", "admin"}
C13_RoleFrame ==
    (SignupStep /\ resp'.code = 201)
        => \E u \in users' \ users :
              /\ u.username = decodeAuthBody(resp'.body_in).username
              /\ u.role = RoleFor(decodeAuthBody(resp'.body_in).role)
C13_RoleDefault == [](C13_RoleState) /\ [][C13_RoleFrame]_vars

\* C14: signup checks no authorization for the requested role. A caller
\* with no session who signs up a fresh, complete account with role "admin"
\* is answered 201 and the user is stored with role "admin"; a login as a
\* stored admin issues a session with role "admin"; and a request to list
\* applications, weekly count or subjects delete with such a session is
\* never answered 401 or 403.
CompleteBody(b) == b.ok /\ b.username # "" /\ b.email # "" /\ b.password # ""
C14_SignupAdminFrame ==
    (SignupStep /\ resp'.cookie = NoCookie /\ CompleteBody(resp'.body_in)
        /\ resp'.body_in.role = "admin" /\ ~Registered(resp'.body_in))
        => /\ resp'.code = 201
           /\ \E u \in users' \ users :
                 u.username = resp'.body_in.username /\ u.role = "admin"
C14_SessionState ==
    /\ (LoginAnswered /\ resp.code = 200
          /\ \E u \in users : u.username = LoginBody.username /\ u.role = "admin")
        => SessionIssued /\ resp.setCookie.values.role = "admin"
    /\ (Answered(AdminRoutes) /\ resp.cookie \in issued /\ HasAdminSession(resp.cookie))
        => resp.code \notin {401, 403}
C14_RoleEscalation == [](C14_SessionState) /\ [][C14_SignupAdminFrame]_vars
\* The account alice was signed up as admin by a caller with no session,
\* and the session her login issued has listed the applications.
C14_EscalationWitness ==
    /\ resp.route = "applications" /\ resp.method = "GET" /\ resp.code = 200
    /\ resp.cookie \in issued /\ resp.cookie.values.role = "admin"
    /\ \E u \in users : u.id = resp.cookie.values.user_id /\ u.role = "admin"
    /\ Len(resp.body) = Cardinality(applications)

\* C15: a successful apply stores exactly one new Application row under an
\* id no row had before, stores the join row (application id, subject id)
\* for each submitted subject name that names a stored Subject and no join
\* row for a name that names none, and answers 201 carrying the new id.
JoinRowsOf(appID) == {j \in application_subjects : j[1] = appID}
\* A join row as written out, so that a row holding a subject name and a
\* row holding a subject id can be told apart.
Written(j) == <<j[1], ToString(j[2])>>
C15_ApplyState ==
    (ApplyAnswered /\ Succeeded) =>
        /\ resp.code = 201
        /\ resp.body.id = resp.locals.appID
        /\ Cardinality({a \in applications : a.id = resp.locals.appID}) = 1
        /\ {Written(j) : j \in JoinRowsOf(resp.locals.appID)} =
              {Written(<<resp.locals.appID, s.id>>) :
                  s \in {x \in subjects : x.name \in Range(resp.body_in.subjects)}}
C15_ApplyFrame ==
    applications' # applications =>
        /\ applications \subseteq applications'
        /\ Cardinality(applications' \ applications) = 1
        /\ \A a \in applications' \ applications :
              \A b \in applications : b.id # a.id
C15_ApplyStores == [](C15_ApplyState) /\ [][C15_ApplyFrame]_vars

\* C16: after any sequence of apply, subject create, subject update and
\* subject delete, listing the applications returns every stored
\* Application exactly once, ordered by created_at descending, and the
\* subjects returned with each are exactly the subject names it was
\* submitted with.
Listed ==
    /\ resp.route = "applications" /\ resp.method = "GET" /\ resp.code = 200
    /\ \A w \in Workers : inflight[w].pc = "idle"
\* Each submission of ListingForms has an email of its own, so a stored
\* row names the submission it came from.
SubmittedWith(email) == (CHOOSE f \in ListingForms : f.email = email).subjects
C16_ListingState ==
    Listed =>
        /\ Len(resp.body) = Cardinality(applications)
        /\ {resp.body[i].id : i \in DOMAIN resp.body} = {a.id : a \in applications}
        /\ \A i, j \in DOMAIN resp.body :
              i < j => resp.body[i].created_at >= resp.body[j].created_at
        /\ \A i \in DOMAIN resp.body :
              resp.body[i].subjects = Range(SubmittedWith(resp.body[i].email))
C16_Listing == [](C16_ListingState)

\* C17: a batch delete of subject ids that is carried out keeps every
\* requested Subject that a join row references, with its join rows, and
\* reports it under "in_use"; removes every requested Subject that no join
\* row references and reports it under "deleted"; and leaves the subjects
\* not named in the request as they were.
DeleteStep ==
    /\ resp'.route = "subjects/delete" /\ resp'.method = "DELETE" /\ resp'.code = 200
    /\ inflight' = inflight /\ now' = now
ReferencedIn(rows, id) == \E j \in rows : j[2] = id
ReportedInUse(body, id) == "in_use" \in DOMAIN body /\ id \in body.in_use
ReportedDeleted(body, id) == "deleted" \in DOMAIN body /\ id \in Range(body.deleted)
C17_DeleteFrame ==
    DeleteStep =>
        \A s \in subjects :
            /\ (s.id \in Range(resp'.body_in.ids) /\ ReferencedIn(application_subjects, s.id))
                => /\ s \in subjects'
                   /\ {j \in application_subjects' : j[2] = s.id}
                         = {j \in application_subjects : j[2] = s.id}
                   /\ ReportedInUse(resp'.body, s.id)
            /\ (s.id \in Range(resp'.body_in.ids) /\ ~ReferencedIn(application_subjects, s.id))
                => /\ s \notin subjects'
                   /\ ReportedDeleted(resp'.body, s.id)
            /\ s.id \notin Range(resp'.body_in.ids) => s \in subjects'
C17_BatchDelete == [][C17_DeleteFrame]_vars

\* C18: the names of the stored Subjects are pairwise distinct in every
\* reachable state; a create whose name is that of a stored Subject, and
\* an update of a stored Subject whose new name is that of a different
\* stored Subject, are answered 409 and leave the subjects table unchanged.
NamesDistinct == \A s, t \in subjects : s.name = t.name => s = t
SubjectsStep(method) ==
    /\ resp'.route = "subjects" /\ resp'.method = method /\ resp'.body_in.ok
    /\ resp'.body_in.name # ""
CreateTaken == \E s \in subjects : s.name = resp'.body_in.name
UpdateTaken ==
    /\ \E t \in subjects : t.id = resp'.body_in.id
    /\ \E s \in subjects : s.id # resp'.body_in.id /\ s.name = resp'.body_in.name
C18_ConflictFrame ==
    ((SubjectsStep("POST") /\ CreateTaken) \/ (SubjectsStep("PUT") /\ UpdateTaken))
        => resp'.code = 409 /\ subjects' = subjects
C18_NamesUnique == [](NamesDistinct) /\ [][C18_ConflictFrame]_vars
\* A subject was created, and a rename of a stored subject to the name of
\* another stored subject was just refused.
C18_ConflictWitness ==
    /\ resp.route = "subjects" /\ resp.method = "PUT" /\ resp.code = 409
    /\ \E s \in subjects : s.id # resp.body_in.id /\ s.name = resp.body_in.name
    /\ \E t \in subjects : t.id = resp.body_in.id /\ t.name # resp.body_in.name
    /\ \E s \in subjects : s.id > 2

\* C19: every stored Application has a non-empty cv_file_path, and a step
\* of an apply request that carries no cv file part stores no Application
\* row.
C19_CvState == \A a \in applications : a.cv_file_path # NoPath
C19_CvFrame ==
    \A w \in Workers :
        (inflight[w].pc # "idle" /\ ~inflight[w].r.body.cv.present)
            => (inflight'[w] # inflight[w] => applications' = applications)
C19_CvRequired == [](C19_CvState) /\ [][C19_CvFrame]_vars

\* C20: an apply submission whose early_start_date is present but does
\* not parse as YYYY-MM-DD is not rejected for it: it succeeds, the stored
\* Application has a NULL start_date, and the listing returns no
\* start_date for it.
Malformed(v) == v # "" /\ parseDate(v).err
\* Each submission of DateForms has an email of its own.
DateSubmitted(email) == (CHOOSE f \in DateForms : f.email = email).early_start_date
C20_DateState ==
    /\ (ApplyAnswered /\ Malformed(resp.body_in.early_start_date)
          /\ ~EmailTaken(resp.body_in.email, resp.locals.appID))
        => /\ Succeeded
           /\ \A a \in applications :
                 a.id = resp.locals.appID => a.start_date = NullTime
    /\ Listed =>
          \A i \in DOMAIN resp.body :
              Malformed(DateSubmitted(resp.body[i].email))
                  => ~resp.body[i].start_date.Valid
C20_MalformedDate == [](C20_DateState)

\* C22: file delivery serves only files under the upload root: a request
\* whose path resolves outside the upload root, or begins with a
\* path-traversal sequence (at the start of the URL path or right after
\* /uploads/), is rejected and no file content is returned; and every
\* file that is served is a stored upload.
DeliveryAnswered == resp.route = "uploads"
ResolvesOutside(p) == cleanPath(p) = <<>> \/ Head(cleanPath(p)) # "uploads"
BeginsWithTraversal(p) ==
    \/ Head(p) = ".."
    \/ Len(p) >= 2 /\ p[1] = "uploads" /\ p[2] = ".."
FileServed == resp.code = 200 /\ resp.method # "OPTIONS"
C22_DeliveryState ==
    DeliveryAnswered =>
        /\ (ResolvesOutside(resp.body_in.path) \/ BeginsWithTraversal(resp.body_in.path))
              => resp.code \in {301, 400, 404, 405}
        /\ FileServed =>
              \E u \in uploads : resp.body.file = <<"uploads", storedName(u)>>
C21_WriteOnceFrame ==
    /\ applications \subseteq applications'
    /\ application_subjects \subseteq application_subjects'
C21_WriteOnce == [][C21_WriteOnceFrame]_vars

\* C23: whoami answers {loggedIn: false} when the request carries no valid
\* session (no cookie, a cookie the store cannot decode, or the cookie of
\* a session that was logged out) and otherwise {loggedIn: true, role,
\* username} with the role and username the login bound to the session;
\* it changes no state.
MeAnswered == resp.route = "me" /\ resp.method = "GET"
ValidSession(cookie) == cookie \in issued /\ cookie \notin loggedOut
C23_WhoamiState ==
    MeAnswered =>
        IF ValidSession(resp.cookie)
        THEN resp.body = [loggedIn |-> TRUE, role |-> resp.cookie.values.role,
                          username |-> resp.cookie.values.username]
        ELSE resp.body = LoggedOutBody
C23_WhoamiFrame ==
    resp'.route = "me" => UNCHANGED <<db, issued, loggedOut>>
C23_Whoami == [](C23_WhoamiState) /\ [][C23_WhoamiFrame]_vars

\* C24: under any interleaving of a subject batch delete with apply
\* submissions that name a subject being deleted, no Subject is deleted
\* while a join row references it: in every reachable state each join row
\* refers to a stored Subject.
RefersTo(j, s) == ToString(j[2]) \in {ToString(s.id), ToString(s.name)}
C24_JoinRowsRefer ==
    \A j \in application_subjects : \E s \in subjects : RefersTo(j, s)
C24_DeleteFrame ==
    \A s \in subjects \ subjects' :
        ~\E j \in application_subjects : RefersTo(j, s)
C24_DeleteConsistent == [](C24_JoinRowsRefer) /\ [][C24_DeleteFrame]_vars

\* C25: apply validates in the order (1) email syntax, (2) phone, (3) email
\* not already used, (4) at least one subject, (5) PDF content type: a
\* submission that breaks several rules is refused, and the failure
\* returned is that of the lowest-numbered rule it breaks. Stated for the
\* server's answer and for the alert of the page's validateForm.
Breaks(f, ownID) ==
    {n \in 1..5 :
        \/ n = 1 /\ ~validEmail(f.email)
        \/ n = 2 /\ ~validPhone(f.phone)
        \/ n = 3 /\ EmailTaken(f.email, ownID)
        \/ n = 4 /\ Len(f.subjects) = 0
        \/ n = 5 /\ (NotPdf(f.cv) \/ NotPdf(f.motivation))}
Lowest(S) == CHOOSE n \in S : \A m \in S : n <= m
\* The rule a failure message is about; 0 for a message of no rule.
RuleOf(message) ==
    CASE message \in {"Please enter a valid email address (example@domain.com)"} -> 1
      [] message \in {"Phone number must be exactly 8 digits"} -> 2
      [] message \in {"Email already used"} -> 3
      [] message \in {"At least one subject is required",
                      "Please select at least one subject"} -> 4
      [] message \in {"cv must be a PDF file", "CV must be a PDF file",
                      "Motivation letter must be a PDF file"} -> 5
      [] OTHER -> 0
\* The page's validation completed last, with no request in flight.
Validated ==
    /\ resp.route = "validateForm"
    /\ \A w \in Workers : inflight[w].pc = "idle"
C25_OrderState ==
    /\ (ApplyAnswered /\ Breaks(resp.body_in, resp.locals.appID) # {})
        => /\ ~Succeeded
           /\ RuleOf(resp.body) = Lowest(Breaks(resp.body_in, resp.locals.appID))
    /\ (Validated /\ Breaks(resp.body_in, 0) # {})
        => RuleOf(resp.body) = Lowest(Breaks(resp.body_in, 0))
C25_ValidationOrder == [](C25_OrderState)

(* ------------------------------ C26: failures of the environment ------- *)
\* What may fail while a submission is stored: the write of either upload
\* file, and the INSERT of the Application row.
Failures == {"cv", "motivation", "insert"}

\* The empty store, with the failures that the environment will produce
\* chosen once and for all.
InitFaulty ==
    /\ variant \in {1, 2, 3}
    /\ users = {}
    /\ applications = {}
    /\ subjects = SeedSubjects
    /\ application_subjects = {}
    /\ uploads = {}
    /\ serial = [users |-> 0, applications |-> 0, subjects |-> 2]
    /\ now = 0
    /\ nano = 0
    /\ issued = {}
    /\ loggedOut = {}
    /\ inflight = [w \in Workers |-> Idle]
    /\ deleting = NotDeleting
    /\ faults \in SUBSET Failures
    /\ ui = InitialUi
    /\ resp = NoResponse

\* Submissions that carry PDF files only, from two applicants.
FaultForms ==
    {[GoodForm EXCEPT !.email = e, !.motivation = m] :
        e \in {"a@b.tn", "c@d.tn"}, m \in {NoFile, PdfFile("m.pdf")}}

NextFaults ==
    \/ ApplyStart(1, FaultForms)
    \/ ApplyFiles(1)
    \/ ApplyInsert(1)
    \/ ApplySubjects(1)

SpecFaults == InitFaulty /\ [][NextFaults]_vars

\* The request of worker 1 is answered in this step.
ApplyEnds == inflight[1].pc # "idle" /\ inflight'[1].pc = "idle"

\* A write of one of its files fails, or its INSERT fails.
SaveFails ==
    \/ inflight[1].r.body.cv.present /\ "cv" \in faults
    \/ inflight[1].r.body.motivation.present /\ "motivation" \in faults
InsertFails == inflight[1].pc = "insert" /\ "insert" \in faults

\* C26: when the write of an upload file fails, or the INSERT of the
\* Application row fails after a file was written, the request is answered
\* 500, no Application row and no join row of the submission exist, and
\* no file under uploads/ is removed.
C26_FailureFrame ==
    (ApplyEnds /\ (SaveFails \/ InsertFails)) =>
        /\ resp'.code = 500
        /\ applications' = applications
        /\ ~\E a \in applications' : a.id = inflight[1].locals.appID
        /\ ~\E j \in application_subjects' : j[1] = inflight[1].locals.appID
        /\ uploads \subseteq uploads'
C26_FailureEndsClean == [][C26_FailureFrame]_vars

\* The INSERT failed after cv.pdf was written: 500, no row, the file stays.
C26_InsertFailedWitness ==
    /\ resp.route = "apply" /\ resp.code = 500
    /\ "insert" \in faults /\ "cv" \notin faults
    /\ applications = {} /\ application_subjects = {}
    /\ uploads # {}
    /\ inflight[1].pc = "idle"

(* ------------------------------ C27: the weekly count ------------------ *)
\* The readings of the clock watched: MaxDays days from the Saturday of
\* the first week (day 5) on, so a Sunday, a Monday and the days after.
WeekClock == Midnight(5)..(Midnight(5 + MaxDays) - 1)

\* The Application stored by the i-th accepted submission, at time t.
WeekRow(i, t, base) ==
    [id |-> i, email |-> "a" \o ToString(i) \o "@b.tn", phone |-> GoodForm.phone,
     start_date |-> NullTime, created_at |-> t,
     cv_file_path |-> <<base + i, "cv.pdf">>, motivation_file_path |-> NoPath]

\* The store after the admin logged in and up to MaxApplications
\* submissions were accepted at any times of the days watched, the clock
\* standing at any later reading.
InitWeek ==
    /\ variant \in {1, 2, 3}
    /\ users = IF variant = 1 THEN {} ELSE {AdminUser}
    /\ subjects = SeedSubjects
    /\ now \in WeekClock
    /\ \E n \in 0..MaxApplications :
         \E at \in [1..n -> WeekClock] :
           LET base == IF variant = 1 THEN 0 ELSE 1 IN
           /\ \A i \in 1..n : at[i] <= now
           /\ \A i, j \in 1..n : i < j => at[i] <= at[j]
           /\ applications = {WeekRow(i, at[i], base) : i \in 1..n}
           /\ application_subjects =
                 {IF variant = 1 THEN <<i, "AI">> ELSE <<i, 1>> : i \in 1..n}
           /\ uploads = {<<base + i, "cv.pdf">> : i \in 1..n}
           /\ serial = [users |-> base, applications |-> n, subjects |-> 2]
           /\ nano = base + n
    /\ issued = IF variant = 1 THEN {} ELSE {SignedCookie(loginValues(AdminUser), 1)}
    /\ loggedOut = {}
    /\ inflight = [w \in Workers |-> Idle]
    /\ deleting = NotDeleting
    /\ faults = {}
    /\ ui = InitialUi
    /\ resp = NoResponse

NextWeek == WeeklyApplications

SpecWeek == InitWeek /\ [][NextWeek]_vars

\* Monday 00:00 of the week the reading t falls in: the one midnight of a
\* Monday that is at most t and less than seven days before it.
MondayOf(t) ==
    CHOOSE m \in (t - Midnight(7) + 1)..t : m % Midnight(7) = 0

\* The weekly count was answered.
WeeklyAnswered ==
    /\ resp.route = "weekly-applications"
    /\ resp.method # "OPTIONS"
    /\ resp.code = 200

ThisWeek == {a \in applications : a.created_at >= MondayOf(now)}

\* C27: the weekly count is the number of stored Applications created at
\* or after Monday 00:00 of the current week, whatever the weekday: on a
\* Sunday that is the Monday six days earlier, on a Monday that same day;
\* an Application created before the boundary is not counted.
C27_WeeklyCount ==
    WeeklyAnswered =>
        /\ resp.body.count = Cardinality(ThisWeek)
        /\ Weekday(now) = 0 => MondayOf(now) = Midnight(Day(now) - 6)
        /\ Weekday(now) = 1 => MondayOf(now) = Midnight(Day(now))

\* On a Sunday an Application of the day before is counted.
C27_SundayWitness ==
    /\ WeeklyAnswered
    /\ Weekday(now) = 0
    /\ \E a \in applications : Day(a.created_at) = Day(now) - 1
    /\ resp.body.count = Cardinality(applications)
    /\ resp.body.count > 0

\* On a Monday an Application of that day is counted and one of the
\* Sunday before is not.
C27_MondayWitness ==
    /\ WeeklyAnswered
    /\ Weekday(now) = 1
    /\ \E a \in applications : Day(a.created_at) = Day(now)
    /\ \E a \in applications : Day(a.created_at) = Day(now) - 1
    /\ resp.body.count = 1

(* ------------------------------ C28: the report of a batch delete ------ *)
\* Batch deletes that name a subject in use, one not in use, the same id
\* twice and an id that was never stored, while submissions come in.
PartitionDeletes ==
    {[ok |-> TRUE, ids |-> ids] : ids \in {<<1>>, <<1, 2>>, <<2, 2>>, <<2, 3>>, <<3, 1, 2>>}}
NextPartition ==
    \/ ApplyStart(1, {GoodForm, [GoodForm EXCEPT !.email = "c@d.tn", !.subjects = <<"Web">>]})
    \/ ApplyFiles(1)
    \/ ApplyInsert(1)
    \/ ApplySubjects(1)
    \/ DeleteSubjectsBegin(PartitionDeletes)
    \/ DeleteSubjectsEnd

SpecPartition == InitAdmin /\ [][NextPartition]_vars

\* Variant 3's batch delete is answered 200 in this step.
DeleteReported ==
    /\ variant = 3
    /\ deleting.pc = "tx" /\ deleting'.pc = "idle"
    /\ resp'.route = "subjects/delete" /\ resp'.code = 200

\* C28: in the answer of a successful batch delete (the handler of App.jsx,
\* the one that reports the two lists), "deleted" and "in_use" are
\* disjoint, every requested id is in exactly one of them, no other id is
\* in either, and no id under "deleted" is in the subjects table after the
\* request.
C28_PartitionFrame ==
    DeleteReported =>
        LET requested == Range(resp'.body_in.ids)
            deleted == Range(resp'.body.deleted)
            in_use == resp'.body.in_use IN
        /\ deleted \cap in_use = {}
        /\ \A id \in requested : (id \in deleted) # (id \in in_use)
        /\ deleted \cup in_use \subseteq requested
        /\ \A id \in deleted : ~\E s \in subjects' : s.id = id
UiRow(id, created_at, full_name, email, degree_level, application_type) ==
    [id |-> id, created_at |-> created_at, full_name |-> full_name, email |-> email,
     degree_level |-> degree_level, application_type |-> application_type]

\* The lists fetched: none stored, two applications, and six (more than a
\* page of five), newest first, two of them with the same name.
UiLists ==
    {<<>>,
     <<UiRow(2, <<"0", "2">>, <<"B", "a">>, <<"b", "@", "a">>, "Master", "Pair"),
       UiRow(1, <<"0", "1">>, <<"a", "b">>, <<"a", "@", "b">>, "Engineering", "Solo")>>,
     <<UiRow(6, <<"2", "0">>, <<"A", "b">>, <<"a", "@", "z">>, "Engineering", "Solo"),
       UiRow(5, <<"1", "2">>, <<"Z">>, <<"z", "@", "a">>, "Engineering", "Solo"),
       UiRow(4, <<"1", "1">>, <<"a", "z">>, <<"a", "@", "a">>, "Engineering", "Pair"),
       UiRow(3, <<"1", "0">>, <<"A", "b">>, <<"b", "@", "z">>, "Engineering", "Solo"),
       UiRow(2, <<"0", "2">>, <<"B", "a">>, <<"b", "@", "a">>, "Engineering", "Solo"),
       UiRow(1, <<"0", "1">>, <<"a", "b">>, <<"a", "@", "b">>, "Bachelor", "Solo")>>}

\* The texts typed into the search box: none, one that matches some rows
\* whatever the case, and one that matches no row.
SearchTexts == {<<>>, <<"A", "B">>, <<"z", "z">>}

NextBackoffice ==
    \/ SetApplications(UiLists)
    \/ SearchChange(SearchTexts)
    \/ FiltersButton
    \/ FilterChange
    \/ PageSizeChange
    \/ ToggleSort
    \/ PreviousPage
    \/ NextPage

SpecBackoffice == InitAdmin /\ [][NextBackoffice]_vars

\* A click on a column header: the only action that changes the sort key
\* or the direction.
SortToggled == <<ui'.sortKey, ui'.sortDir>> # <<ui.sortKey, ui.sortDir>>

\* The same key with the direction flipped, or another key ascending; the
\* filters, the search text, the page size and the list fetched as before.
ToggleEffect ==
    /\ ui'.sortKey = ui.sortKey =>
          /\ ui.sortDir = "asc" => ui'.sortDir = "desc"
          /\ ui.sortDir = "desc" => ui'.sortDir = "asc"
    /\ ui'.sortKey # ui.sortKey => ui'.sortDir = "asc"
    /\ ui'.filters = ui.filters
    /\ ui'.search = ui.search
    /\ ui'.pageSize = ui.pageSize
    /\ ui'.applications = ui.applications

\* rows holds the rows of list, each once, ordered by key in direction dir.
OrderedBy(rows, list, key, dir) ==
    /\ Len(rows) = Len(list)
    /\ Range(rows) = Range(list)
    /\ \A i, j \in DOMAIN rows :
          i < j => IF dir = "asc" THEN ~lessThan(rows[j][key], rows[i][key])
                   ELSE ~lessThan(rows[i][key], rows[j][key])

\* The rows of page number page, of pages of size rows each.
PageOf(rows, page, size) ==
    [i \in 1..(IF page * size <= Len(rows) THEN size
               ELSE IF (page - 1) * size >= Len(rows) THEN 0
               ELSE Len(rows) - (page - 1) * size) |-> rows[(page - 1) * size + i]]

\* C29 as stated: after toggleSort the rows shown are the filtered list
\* ordered by the sort key in the sort direction.
C29_ShowsAllFrame ==
    SortToggled =>
        /\ ToggleEffect
        /\ OrderedBy(paginated(ui'), filtered(ui'), ui'.sortKey, ui'.sortDir)
C29_ShowsPageFrame ==
    SortToggled =>
        /\ ToggleEffect
        /\ \E rows \in {sorted(ui')} :
              /\ OrderedBy(rows, filtered(ui'), ui'.sortKey, ui'.sortDir)
              /\ paginated(ui') = PageOf(rows, ui'.page, ui'.pageSize)
PagesOf(u) ==
    CHOOSE n \in 0..Len(u.applications) :
        /\ n * u.pageSize >= Len(filtered(u))
        /\ \A m \in 0..Len(u.applications) : m * u.pageSize >= Len(filtered(u)) => n <= m
C30_PageState ==
    /\ ui.page >= 1
    /\ ui.page <= (IF PagesOf(ui) > 1 THEN PagesOf(ui) ELSE 1)
C30_ResetFrame ==
    (ui'.search # ui.search \/ ui'.filters # ui.filters \/ ui'.pageSize # ui.pageSize)
        => ui'.page = 1
C30_PageInRange == [](C30_PageState) /\ [][C30_ResetFrame]_vars

====
